---- MODULE Spec2Model ----
(***************************************************************************)
(* Verification model of the User-API-Management service: the JWT Auth     *)
(* Gate and Role Gate middleware, the route table, the AuthService         *)
(* (GenerateJWT, Login, SetJWTConfig) and the HTTP handlers behind the     *)
(* gates.  Time is counted in ticks; one second is Second ticks, so that   *)
(* the truncation of token timestamps to whole seconds is visible.         *)
(***************************************************************************)
EXTENDS Integers, Sequences, FiniteSets, TLC

\* ------------------------------------------------------------------ bounds
Second == 2             \* ticks per second (clock resolution of the model)
SecondsPerHour == 1     \* scaled length of time.Hour, in seconds
MaxClock == 3           \* the clock runs over 0..MaxClock ticks
MaxIssued == 1          \* tokens remembered as issued, at most
MaxReq == 1             \* request slots served at the same time
MaxUserID == 4          \* ids the users id sequence hands out, at most
MaxHashes == 2          \* calls of HashPassword remembered, at most
MaxYears == 5           \* years of age, and years of today's date past FirstYear, at most
FirstYear == 2023       \* the first year today's date is taken from

Hour == SecondsPerHour * Second
Req == 1..MaxReq
\* the request contexts the server holds: one more than the service is
\* driven with, for the requests served side by side
Slots == 1..(MaxReq + 1)

\* ------------------------------------------------------- HTTP status codes
StatusOK == 200
StatusCreated == 201
StatusNoContent == 204
StatusBadRequest == 400
StatusUnauthorized == 401
StatusForbidden == 403
StatusConflict == 409
StatusNotFound == 404
StatusInternalServerError == 500

\* -------------------------------------------------------------- responses
NewErrorResponse(message, code) == [message |-> message, code |-> code]

NoMeta == [Page |-> 0, Limit |-> 0, TotalPages |-> 0, HasNext |-> FALSE,
           HasPrevious |-> FALSE]

SendError(status, message, code) ==
    [status |-> status, body |-> NewErrorResponse(message, code),
     data |-> <<>>, total |-> 0, meta |-> NoMeta]

SendBadRequest(message) == SendError(StatusBadRequest, message, "INVALID_INPUT")

SendUnauthorized(message) == SendError(StatusUnauthorized, message, "UNAUTHORIZED")

SendForbidden(message) == SendError(StatusForbidden, message, "FORBIDDEN")
SendConflict(message) == SendError(StatusConflict, message, "ALREADY_EXISTS")
SendNotFound(message) == SendError(StatusNotFound, message, "NOT_FOUND")

SendInternalError(message) ==
    SendError(StatusInternalServerError, message, "INTERNAL_ERROR")

\* c.Status(status).JSON(...) of a success: no error code; data holds the user
\* views of the payload and total its count field
SendJSON(status, message, data, total) ==
    [status |-> status, body |-> [message |-> message, code |-> ""],
     data |-> data, total |-> total, meta |-> NoMeta]

NoResponse == SendJSON(0, "", <<>>, 0)

\* a nil pointer dereference in a handler: the goroutine panics
Panic == SendJSON(0, "panic: nil pointer dereference", <<>>, 0)

\* ----------------------------------------------------------------- tokens
\* A JWT is its header algorithm, the key its signature was made with, and its
\* claims.  A signature made with key k under algorithm a verifies exactly
\* under key k and algorithm a.
HMACAlgs == {"HS256", "HS384", "HS512"}
RegisteredAlgs == HMACAlgs \cup {"RS256", "none"}

Token(alg, key, uid, role, iat, hasExp, exp) ==
    [alg |-> alg, key |-> key, uid |-> uid, role |-> role, iat |-> iat,
     hasExp |-> hasExp, exp |-> exp]

NoToken == Token("", "", 0, "", 0, FALSE, 0)

\* jwt.NewNumericDate: the time truncated to jwt.TimePrecision, one second
NewNumericDate(t) == t - (t % Second)

\* ---------------------------------------------------- Authorization header
\* A header value is a sequence of items: a space, a tab, a literal word, or
\* a JWT.  Two items that are not white space are never adjacent.
SP == [w |-> " ", t |-> NoToken]
TAB == [w |-> "\t", t |-> NoToken]
Word(w) == [w |-> w, t |-> NoToken]
Jwt(t) == [w |-> "", t |-> t]

ToLowerWord(w) ==
    CASE w \in {"Bearer", "bearer", "BEARER", "bEaReR"} -> "bearer"
      [] w \in {"Basic", "basic"} -> "basic"
      [] OTHER -> w

\* strings.HasPrefix(strings.ToLower(authHeader), "bearer ")
HasBearerPrefix(authHeader) ==
    /\ Len(authHeader) >= 2
    /\ authHeader[1].w # ""
    /\ ToLowerWord(authHeader[1].w) = "bearer"
    /\ authHeader[2] = SP

\* a gate that splits the header into fields without looking at its prefix
Auth_FieldsOnly(jwtSecret, authHeader, now) ==
    LET parts == SelectSeq(authHeader, LAMBDA it : it \notin {SP, TAB}) IN
    IF authHeader = <<>>
    THEN [next |-> FALSE, locals |-> [kind |-> "nil", ID |-> 0, Role |-> ""],
          resp |-> [status |-> StatusUnauthorized,
                    body |-> NewErrorResponse("Missing authorization header", "UNAUTHORIZED"),
                    data |-> <<>>, total |-> 0, meta |-> NoMeta]]
    ELSE IF Len(parts) = 2 /\ parts[1].w \in {"Bearer", "bearer", "BEARER", "bEaReR"}
            /\ parts[2].w = "" /\ parts[2].t.alg \in HMACAlgs /\ parts[2].t.key = jwtSecret
            /\ (parts[2].t.hasExp => now < parts[2].t.exp)
    THEN [next |-> TRUE, resp |-> SendJSON(0, "", <<>>, 0),
          locals |-> [kind |-> "AuthUser", ID |-> parts[2].t.uid, Role |-> parts[2].t.role]]
    ELSE [next |-> FALSE, locals |-> [kind |-> "nil", ID |-> 0, Role |-> ""],
          resp |-> [status |-> StatusUnauthorized,
                    body |-> NewErrorResponse("Invalid or expired token", "INVALID_TOKEN"),
                    data |-> <<>>, total |-> 0, meta |-> NoMeta]]

\* strings.Fields: the maximal runs of characters that are not white space
Fields(authHeader) == SelectSeq(authHeader, LAMBDA it : it \notin {SP, TAB})

\* strings.EqualFold(part, "bearer")
EqualFoldBearer(part) == part.w # "" /\ ToLowerWord(part.w) = "bearer"

RECURSIVE Join(_)
\* strings.Join(parts, " ")
Join(parts) ==
    IF Len(parts) <= 1 THEN parts
    ELSE <<Head(parts), SP>> \o Join(Tail(parts))

\* ------------------------------------------------------ golang-jwt parsing
\* a key function that hands out the key whatever the signing method
KeyFunc_AnyAlg(jwtSecret, alg) ==
    [err |-> "", key |-> IF alg \in HMACAlgs THEN jwtSecret ELSE ""]

\* keyFunc of Auth: only an HMAC signing method gets the key
KeyFunc(jwtSecret, alg) ==
    IF alg \notin HMACAlgs
    THEN [err |-> "signature is invalid", key |-> ""]
    ELSE [err |-> "", key |-> jwtSecret]

\* a signature that ignores the key it is checked with
SignatureValid_Skip(tok, key) == TRUE

\* SigningMethodHMAC.Verify: the signature was made with this key
SignatureValid(tok, key) == tok.key = key

\* an expiry check that still accepts the token at its expiry instant
ExpiresAtValid_OffByOne(tok, now) == ~tok.hasExp \/ now <= tok.exp

\* Validator.verifyExpiresAt: no exp claim, or now before it
ExpiresAtValid(tok, now) == ~tok.hasExp \/ now < tok.exp

ParseResult(err, uid, role, valid) ==
    [err |-> err, UserID |-> uid, Role |-> role, Valid |-> valid]

\* jwt.ParseWithClaims(tokenString, &JWTClaims{}, keyFunc) at time now:
\* segments decoded, signing method looked up, key fetched, signature
\* verified, registered claims validated (exp only when present; now < exp).
ParseWithClaims(tokenString, jwtSecret, now) ==
    IF Len(tokenString) # 1 \/ tokenString[1].w # ""
    THEN ParseResult("token is malformed", 0, "", FALSE)
    ELSE LET tok == tokenString[1].t
             k == KeyFunc(jwtSecret, tok.alg)
         IN  IF tok.alg \notin RegisteredAlgs
             THEN ParseResult("signing method (alg) is unavailable", 0, "", FALSE)
             ELSE IF k.err # ""
             THEN ParseResult("token is unverifiable", 0, "", FALSE)
             ELSE IF ~SignatureValid(tok, k.key)
             THEN ParseResult("signature is invalid", 0, "", FALSE)
             ELSE IF ~ExpiresAtValid(tok, now)
             THEN ParseResult("token is expired", 0, "", FALSE)
             ELSE ParseResult("", tok.uid, tok.role, TRUE)

\* ------------------------------------------------------------- middleware
\* value stored under AuthUserKey in the request's Locals
NoLocal == [kind |-> "nil", ID |-> 0, Role |-> ""]
AuthUser(id, role) == [kind |-> "AuthUser", ID |-> id, Role |-> role]

\* a lookup that takes any stored value for the principal
GetAuthUser_AnyValue(locals) == locals

\* GetAuthUser: the stored value if it is a models.AuthUser, else nil
GetAuthUser(locals) == IF locals.kind = "AuthUser" THEN locals ELSE NoLocal

GateResult(next, resp, locals) == [next |-> next, resp |-> resp, locals |-> locals]

\* an Auth Gate that tells the client when its token has expired
Auth_TellsExpired(jwtSecret, authHeader, now) ==
    IF authHeader = <<>>
    THEN GateResult(FALSE, SendUnauthorized("Missing authorization header"), NoLocal)
    ELSE IF ~HasBearerPrefix(authHeader)
    THEN GateResult(FALSE,
           SendUnauthorized("Invalid authorization header format. Expected: Bearer <token>"),
           NoLocal)
    ELSE LET parts == Fields(authHeader) IN
    IF Len(parts) < 2
    THEN GateResult(FALSE, SendUnauthorized("Token is required"), NoLocal)
    ELSE IF ~EqualFoldBearer(parts[1])
    THEN GateResult(FALSE,
           SendUnauthorized("Invalid authorization header format. Expected: Bearer <token>"),
           NoLocal)
    ELSE LET tokenString == Join(Tail(parts)) IN
    IF tokenString = <<>>
    THEN GateResult(FALSE, SendUnauthorized("Token is required"), NoLocal)
    ELSE LET token == ParseWithClaims(tokenString, jwtSecret, now) IN
    IF token.err = "token is expired"
    THEN GateResult(FALSE,
           SendError(StatusUnauthorized, "Token has expired", "EXPIRED_TOKEN"),
           NoLocal)
    ELSE IF token.err # ""
    THEN GateResult(FALSE,
           SendError(StatusUnauthorized, "Invalid or expired token", "INVALID_TOKEN"),
           NoLocal)
    ELSE IF ~token.Valid
    THEN GateResult(FALSE,
           SendError(StatusUnauthorized, "Invalid token claims", "INVALID_TOKEN"),
           NoLocal)
    ELSE GateResult(TRUE, NoResponse, AuthUser(token.UserID, token.Role))

\* an Auth Gate that treats an empty token as a token that fails to verify
Auth_EmptyTokenInvalid(jwtSecret, authHeader, now) ==
    IF authHeader = <<>>
    THEN GateResult(FALSE, SendUnauthorized("Missing authorization header"), NoLocal)
    ELSE IF ~HasBearerPrefix(authHeader)
    THEN GateResult(FALSE,
           SendUnauthorized("Invalid authorization header format. Expected: Bearer <token>"),
           NoLocal)
    ELSE LET parts == Fields(authHeader) IN
    IF Len(parts) < 2
    THEN GateResult(FALSE,
           SendError(StatusUnauthorized, "Invalid or expired token", "INVALID_TOKEN"),
           NoLocal)
    ELSE IF ~EqualFoldBearer(parts[1])
    THEN GateResult(FALSE,
           SendUnauthorized("Invalid authorization header format. Expected: Bearer <token>"),
           NoLocal)
    ELSE LET tokenString == Join(Tail(parts)) IN
    IF tokenString = <<>>
    THEN GateResult(FALSE,
           SendError(StatusUnauthorized, "Invalid or expired token", "INVALID_TOKEN"),
           NoLocal)
    ELSE LET token == ParseWithClaims(tokenString, jwtSecret, now) IN
    IF token.err # ""
    THEN GateResult(FALSE,
           SendError(StatusUnauthorized, "Invalid or expired token", "INVALID_TOKEN"),
           NoLocal)
    ELSE IF ~token.Valid
    THEN GateResult(FALSE,
           SendError(StatusUnauthorized, "Invalid token claims", "INVALID_TOKEN"),
           NoLocal)
    ELSE GateResult(TRUE, NoResponse, AuthUser(token.UserID, token.Role))

\* middleware.Auth(jwtSecret) applied to a request with this Authorization
\* header at time now: whether c.Next() is called, the response written by
\* the gate itself, and the value stored in Locals.
Auth(jwtSecret, authHeader, now) ==
    IF authHeader = <<>>
    THEN GateResult(FALSE, SendUnauthorized("Missing authorization header"), NoLocal)
    ELSE IF ~HasBearerPrefix(authHeader)
    THEN GateResult(FALSE,
           SendUnauthorized("Invalid authorization header format. Expected: Bearer <token>"),
           NoLocal)
    ELSE LET parts == Fields(authHeader) IN
    IF Len(parts) < 2
    THEN GateResult(FALSE, SendUnauthorized("Token is required"), NoLocal)
    ELSE IF ~EqualFoldBearer(parts[1])
    THEN GateResult(FALSE,
           SendUnauthorized("Invalid authorization header format. Expected: Bearer <token>"),
           NoLocal)
    ELSE LET tokenString == Join(Tail(parts)) IN
    IF tokenString = <<>>
    THEN GateResult(FALSE, SendUnauthorized("Token is required"), NoLocal)
    ELSE LET token == ParseWithClaims(tokenString, jwtSecret, now) IN
    IF token.err # ""
    THEN GateResult(FALSE,
           SendError(StatusUnauthorized, "Invalid or expired token", "INVALID_TOKEN"),
           NoLocal)
    ELSE IF ~token.Valid
    THEN GateResult(FALSE,
           SendError(StatusUnauthorized, "Invalid token claims", "INVALID_TOKEN"),
           NoLocal)
    ELSE GateResult(TRUE, NoResponse, AuthUser(token.UserID, token.Role))

\* a role check that lets everyone through when no role is listed
HasRole_EmptyAllowsAll(role, allowedRoles) ==
    Len(allowedRoles) = 0 \/ \E i \in 1..Len(allowedRoles) : allowedRoles[i] = role

\* membership of the principal's role in the allowed list, as the loop does
HasRole(role, allowedRoles) == \E i \in 1..Len(allowedRoles) : allowedRoles[i] = role

\* middleware.RequireRole(allowedRoles...) applied to a request whose Locals
\* hold this value
RequireRole(allowedRoles, locals) ==
    LET authUser == GetAuthUser(locals) IN
    IF authUser = NoLocal
    THEN GateResult(FALSE, SendUnauthorized("Unauthorized"), locals)
    ELSE IF ~HasRole(authUser.Role, allowedRoles)
    THEN GateResult(FALSE,
           SendError(StatusForbidden, "Forbidden: insufficient permissions",
                     "INSUFFICIENT_PERMISSIONS"),
           locals)
    ELSE GateResult(TRUE, NoResponse, locals)

\* ------------------------------------------------------------ user store
BcryptKeyBytes == 72
MinPasswordLen == 8

\* the bytes of a password bcrypt keys its cipher with: the first 72
BcryptKey(password) ==
    IF Len(password) > BcryptKeyBytes THEN SubSeq(password, 1, BcryptKeyBytes)
    ELSE password

\* bcrypt hash: well-formed or not, with the salt and the key bytes it hides
Hash(salt, password) == [ok |-> TRUE, salt |-> salt, pw |-> BcryptKey(password)]
EmptyHash == [ok |-> FALSE, salt |-> 0, pw |-> <<>>]

User(id, name, email, hash, role, dob) ==
    [ID |-> id, Name |-> name, Email |-> email, PasswordHash |-> hash,
     Role |-> role, Dob |-> dob]

NoUser == User(0, "", "", EmptyHash, "", "")

PwAdmin == <<"A", "d", "m", "i", "n", "#", "1", "x">>
PwUser  == <<"U", "s", "e", "r", "P", "w", "2", "!">>
Passwords == {PwAdmin, PwUser}

WellFormedEmails == {"a@x.io", "u@x.io", "n@x.io"}
Names == {"Al", "Bo"}
Dates == {"1990-01-01", "2000-02-29"}
Roles == {"user", "admin"}

\* rows present in the database when the server starts
SeedUsers ==
    { User(1, "Al", "a@x.io", Hash(1, PwAdmin), "admin", "1990-01-01"),
      User(2, "Bo", "u@x.io", Hash(2, PwUser), "user", "2000-02-29") }

\* UserRepository.GetByEmail / GetUserByEmail :one
GetByEmail(store, email, dbErr) ==
    IF dbErr THEN [err |-> "db error", user |-> NoUser]
    ELSE IF \E u \in store : u.Email = email
    THEN [err |-> "", user |-> CHOOSE u \in store : u.Email = email]
    ELSE [err |-> "no rows in result set", user |-> NoUser]

\* UserRepository.GetByID / GetUserByID :one
GetByID(store, id) ==
    IF \E u \in store : u.ID = id
    THEN [err |-> "", user |-> CHOOSE u \in store : u.ID = id]
    ELSE [err |-> "no rows in result set", user |-> NoUser]

\* ------------------------------------------------------------ AuthService
\* bcrypt.CompareHashAndPassword
ComparePassword(hashedPassword, password) ==
    IF ~hashedPassword.ok THEN "hashedSecret too short to be a bcrypted password"
    ELSE IF hashedPassword.pw = BcryptKey(password) THEN ""
    ELSE "hashedPassword is not the hash of the given password"

\* an error value: which sentinel it is ("" for an error made on the spot,
\* "nil" for none) and the words of its Error() text
Error(id, words) == [id |-> id, words |-> words]
Nil == Error("nil", <<>>)

RECURSIVE ErrorText(_)
\* err.Error(): the words with one blank between them
ErrorText(words) ==
    IF words = <<>> THEN ""
    ELSE IF Len(words) = 1 THEN words[1]
    ELSE words[1] \o " " \o ErrorText(Tail(words))

\* fmt.Errorf(prefix + ": %w", err)
Errorf(prefix, err) == Error("", prefix \o err.words)

\* strings.Contains(err.Error(), phrase), the phrase given as its words
Contains(words, phrase) ==
    \E i \in 0..(Len(words) - Len(phrase)) :
        SubSeq(words, i + 1, i + Len(phrase)) = phrase

ErrPasswordTooShort ==
    Error("ErrPasswordTooShort",
          <<"password", "must", "be", "at", "least", "8", "characters", "long">>)
ErrPasswordNoUppercase ==
    Error("ErrPasswordNoUppercase",
          <<"password", "must", "contain", "at", "least", "one", "uppercase", "letter">>)
ErrPasswordNoLowercase ==
    Error("ErrPasswordNoLowercase",
          <<"password", "must", "contain", "at", "least", "one", "lowercase", "letter">>)
ErrPasswordNoDigit ==
    Error("ErrPasswordNoDigit",
          <<"password", "must", "contain", "at", "least", "one", "digit">>)
ErrPasswordNoSpecial ==
    Error("ErrPasswordNoSpecial",
          <<"password", "must", "contain", "at", "least", "one", "special", "character">>)
ErrEmailAlreadyExists == Error("ErrEmailAlreadyExists", <<"email", "already", "exists">>)

\* the character classes of the policy's regular expressions; the back
\* quote, which a string of this language cannot hold, is written by name
UpperChars ==
    {"A", "B", "C", "D", "E", "F", "G", "H", "I", "J", "K", "L", "M",
     "N", "O", "P", "Q", "R", "S", "T", "U", "V", "W", "X", "Y", "Z"}
LowerChars ==
    {"a", "b", "c", "d", "e", "f", "g", "h", "i", "j", "k", "l", "m",
     "n", "o", "p", "q", "r", "s", "t", "u", "v", "w", "x", "y", "z"}
DigitChars == {"0", "1", "2", "3", "4", "5", "6", "7", "8", "9"}
SpecialChars ==
    {"!", "@", "#", "$", "%", "^", "&", "*", "(", ")", "_", "+", "-", "=",
     "[", "]", "{", "}", ";", "'", ":", "\"", "\\", "|", ",", ".", "<", ">",
     "/", "?", "~", "backquote"}

\* regexp.MustCompile("[class]").MatchString(password)
MatchString(class, password) == \E i \in 1..Len(password) : password[i] \in class

\* a policy that looks for a digit before it looks at the letters
ValidatePasswordStrength_DigitFirst(password) ==
    IF Len(password) < MinPasswordLen THEN ErrPasswordTooShort
    ELSE IF ~MatchString(DigitChars, password) THEN ErrPasswordNoDigit
    ELSE IF ~MatchString(UpperChars, password) THEN ErrPasswordNoUppercase
    ELSE IF ~MatchString(LowerChars, password) THEN ErrPasswordNoLowercase
    ELSE IF ~MatchString(SpecialChars, password) THEN ErrPasswordNoSpecial
    ELSE Nil

\* AuthService.ValidatePasswordStrength; a password is the sequence of its
\* bytes, each one character
ValidatePasswordStrength(password) ==
    IF Len(password) < MinPasswordLen THEN ErrPasswordTooShort
    ELSE IF ~MatchString(UpperChars, password) THEN ErrPasswordNoUppercase
    ELSE IF ~MatchString(LowerChars, password) THEN ErrPasswordNoLowercase
    ELSE IF ~MatchString(DigitChars, password) THEN ErrPasswordNoDigit
    ELSE IF ~MatchString(SpecialChars, password) THEN ErrPasswordNoSpecial
    ELSE Nil

ErrPasswordTooLong ==
    Error("bcrypt.ErrPasswordTooLong",
          <<"bcrypt:", "password", "length", "exceeds", "72", "bytes">>)

\* a hasher that reuses one salt
HashPassword_FixedSalt(password, salt, tooLongFails) ==
    IF tooLongFails /\ Len(password) > BcryptKeyBytes
    THEN [err |-> Errorf(<<"failed", "to", "hash", "password:">>, ErrPasswordTooLong),
          hash |-> EmptyHash]
    ELSE [err |-> Nil, hash |-> Hash(1, password)]

\* AuthService.HashPassword with the salt bcrypt draws for this call.  A
\* password of more than 72 bytes is refused by the newer releases of
\* golang.org/x/crypto and cut to 72 bytes by the older ones: tooLongFails
\* says which release the build has.
HashPassword(password, salt, tooLongFails) ==
    IF tooLongFails /\ Len(password) > BcryptKeyBytes
    THEN [err |-> Errorf(<<"failed", "to", "hash", "password:">>, ErrPasswordTooLong),
          hash |-> EmptyHash]
    ELSE [err |-> Nil, hash |-> Hash(salt, password)]

\* a token issuer that writes the default role into every token
GenerateJWT_DefaultRole(secret, expiry, now, userID, role) ==
    IF secret = ""
    THEN [err |-> "JWT secret not configured", token |-> NoToken]
    ELSE [err |-> "",
          token |-> Token("HS256", secret, userID, "user",
                          NewNumericDate(now), TRUE, NewNumericDate(now + expiry))]

\* a token issuer that signs with whatever secret it has, the empty one too
GenerateJWT_NoSecretCheck(secret, expiry, now, userID, role) ==
    [err |-> "",
     token |-> Token("HS256", secret, userID, role,
                     NewNumericDate(now), TRUE, NewNumericDate(now + expiry))]

\* AuthService.GenerateJWT at time now
GenerateJWT(secret, expiry, now, userID, role) ==
    IF secret = ""
    THEN [err |-> "JWT secret not configured", token |-> NoToken]
    ELSE [err |-> "",
          token |-> Token("HS256", secret, userID, role,
                          NewNumericDate(now), TRUE, NewNumericDate(now + expiry))]

LoginResult(user, token, err) == [user |-> user, token |-> token, err |-> err]

\* a login that tells an unknown email from a wrong password
Login_TellsApart(store, secret, expiry, now, email, password, dbErr) ==
    LET found == GetByEmail(store, email, dbErr) IN
    IF found.err # ""
    THEN LoginResult(NoUser, NoToken, "user not found")
    ELSE IF ComparePassword(found.user.PasswordHash, password) # ""
    THEN LoginResult(NoUser, NoToken, "ErrInvalidCredentials")
    ELSE LET gen == GenerateJWT(secret, expiry, now, found.user.ID, found.user.Role) IN
         IF gen.err # ""
         THEN LoginResult(NoUser, NoToken, "failed to generate token")
         ELSE LoginResult(found.user, gen.token, "")

\* a login that writes the role "user" into every token
Login_FixedRole(store, secret, expiry, now, email, password, dbErr) ==
    LET found == GetByEmail(store, email, dbErr) IN
    IF found.err # ""
    THEN LoginResult(NoUser, NoToken, "ErrInvalidCredentials")
    ELSE IF ComparePassword(found.user.PasswordHash, password) # ""
    THEN LoginResult(NoUser, NoToken, "ErrInvalidCredentials")
    ELSE LET gen == GenerateJWT(secret, expiry, now, found.user.ID, "user") IN
         IF gen.err # ""
         THEN LoginResult(NoUser, NoToken, "failed to generate token")
         ELSE LoginResult(found.user, gen.token, "")

\* a login that reports a failure of the store as such
Login_StoreFailure(store, secret, expiry, now, email, password, dbErr) ==
    LET found == GetByEmail(store, email, dbErr) IN
    IF found.err = "no rows in result set"
    THEN LoginResult(NoUser, NoToken, "ErrInvalidCredentials")
    ELSE IF found.err # ""
    THEN LoginResult(NoUser, NoToken, "failed to get user")
    ELSE IF ComparePassword(found.user.PasswordHash, password) # ""
    THEN LoginResult(NoUser, NoToken, "ErrInvalidCredentials")
    ELSE LET gen == GenerateJWT(secret, expiry, now, found.user.ID, found.user.Role) IN
         IF gen.err # ""
         THEN LoginResult(NoUser, NoToken, "failed to generate token")
         ELSE LoginResult(found.user, gen.token, "")

\* AuthService.Login at time now
Login(store, secret, expiry, now, email, password, dbErr) ==
    LET found == GetByEmail(store, email, dbErr) IN
    IF found.err # ""
    THEN LoginResult(NoUser, NoToken, "ErrInvalidCredentials")
    ELSE IF ComparePassword(found.user.PasswordHash, password) # ""
    THEN LoginResult(NoUser, NoToken, "ErrInvalidCredentials")
    ELSE LET gen == GenerateJWT(secret, expiry, now, found.user.ID, found.user.Role) IN
         IF gen.err # ""
         THEN LoginResult(NoUser, NoToken, "failed to generate token")
         ELSE LoginResult(found.user, gen.token, "")

\* ---------------------------------------------------------- configuration
DefaultSecret == "your-secret-key-change-in-production"
OtherSecret == "s3cr3t"
DefaultExpiryHours == 24

\* an environment variable holding a number: unset, not a number, or n
EnvUnset == [kind |-> "unset", n |-> 0]
EnvText == [kind |-> "text", n |-> 0]
EnvNum(n) == [kind |-> "num", n |-> n]

\* the environments the server may be started in
Envs ==
    [ JWT_SECRET : {"", OtherSecret},
      JWT_EXPIRY_HOURS : {EnvUnset, EnvText, EnvNum(0), EnvNum(1)} ]

\* getEnv on a string variable: the default when unset or empty
getEnv(value, defaultValue) == IF value # "" THEN value ELSE defaultValue

\* strconv.Atoi(getEnv("JWT_EXPIRY_HOURS", "24")), 24 on a parse error
ExpiryHours(v) ==
    CASE v.kind = "unset" -> DefaultExpiryHours
      [] v.kind = "text" -> DefaultExpiryHours
      [] OTHER -> v.n

\* config.Load
Load(env) ==
    [ JWTSecret |-> getEnv(env.JWT_SECRET, DefaultSecret),
      JWTExpiry |-> ExpiryHours(env.JWT_EXPIRY_HOURS) * Hour ]

\* secrets and expiry durations SetJWTConfig may be called with
Secrets == {Load(env).JWTSecret : env \in Envs}
Expiries == {Load(env).JWTExpiry : env \in Envs}

\* ------------------------------------------------------------------- dates
\* a calendar date, as time.Time gives it through Year, Month and Day
Date(y, m, d) == [y |-> y, m |-> m, d |-> d]
NoDate == Date(0, 0, 0)

IsLeap(y) == y % 4 = 0 /\ (y % 100 # 0 \/ y % 400 = 0)

DaysIn(y, m) ==
    IF m = 2 THEN (IF IsLeap(y) THEN 29 ELSE 28)
    ELSE IF m \in {4, 6, 9, 11} THEN 30 ELSE 31

RECURSIVE DaysBefore(_, _)
\* the days of year y that lie before month m
DaysBefore(y, m) == IF m <= 1 THEN 0 ELSE DaysBefore(y, m - 1) + DaysIn(y, m - 1)

\* time.Time.YearDay: 1..365, or 1..366 in a leap year
YearDay(t) == DaysBefore(t.y, t.m) + t.d

RECURSIVE Normalize(_, _, _)
\* time.Date: a day or month out of range is carried over
Normalize(y, m, d) ==
    IF m < 1 THEN Normalize(y - 1, m + 12, d)
    ELSE IF m > 12 THEN Normalize(y + 1, m - 12, d)
    ELSE IF d < 1 THEN (IF m = 1 THEN Normalize(y - 1, 12, d + 31)
                        ELSE Normalize(y, m - 1, d + DaysIn(y, m - 1)))
    ELSE IF d > DaysIn(y, m) THEN Normalize(y, m + 1, d - DaysIn(y, m))
    ELSE Date(y, m, d)

\* time.Time.AddDate
AddDate(t, years, months, days) == Normalize(t.y + years, t.m + months, t.d + days)

\* calculateAge, with time.Now() = now
calculateAge(now, dob) ==
    IF YearDay(now) < YearDay(dob) THEN now.y - dob.y - 1 ELSE now.y - dob.y

\* ------------------------------------------------------------ route table
\* routes.Register: each route's chain of middleware and handler, and the
\* roles its RequireRole allows.  RequestID and Logger, mounted globally,
\* always call c.Next() and are left out of the chains.
Route(chain, allowed) == [chain |-> chain, allowed |-> allowed]

\* a route table whose admin routes lack the Role Gate
Register_NoRoleGate ==
    [ signup       |-> Route(<<"Signup">>, <<>>),
      login        |-> Route(<<"LoginHandler">>, <<>>),
      users_me     |-> Route(<<"Auth", "GetCurrentUser">>, <<>>),
      users_create |-> Route(<<"Auth", "Create">>, <<>>),
      users_get    |-> Route(<<"Auth", "GetByID">>, <<>>),
      users_list   |-> Route(<<"Auth", "List">>, <<>>),
      users_update |-> Route(<<"Auth", "Update">>, <<>>),
      users_delete |-> Route(<<"Auth", "Delete">>, <<>>),
      admin_users  |-> Route(<<"Auth", "GetAllUsers">>, <<"admin">>),
      admin_stats  |-> Route(<<"Auth", "GetStats">>, <<"admin">>) ]

Register ==
    [ signup       |-> Route(<<"Signup">>, <<>>),
      login        |-> Route(<<"LoginHandler">>, <<>>),
      users_me     |-> Route(<<"Auth", "GetCurrentUser">>, <<>>),
      users_create |-> Route(<<"Auth", "Create">>, <<>>),
      users_get    |-> Route(<<"Auth", "GetByID">>, <<>>),
      users_list   |-> Route(<<"Auth", "List">>, <<>>),
      users_update |-> Route(<<"Auth", "Update">>, <<>>),
      users_delete |-> Route(<<"Auth", "Delete">>, <<>>),
      admin_users  |-> Route(<<"Auth", "RequireRole", "GetAllUsers">>, <<"admin">>),
      admin_stats  |-> Route(<<"Auth", "RequireRole", "GetStats">>, <<"admin">>) ]

ProtectedRoutes ==
    {"users_me", "users_create", "users_get", "users_list", "users_update",
     "users_delete"}
AdminRoutes == {"admin_users", "admin_stats"}
AdminHandlers == {"GetAllUsers", "GetStats"}

\* ------------------------------------------------------------------ state
VARIABLES
    clock,       \* time.Now(), in ticks
    jwtSecret,   \* AuthService.jwtSecret
    jwtExpiry,   \* AuthService.jwtExpiry, in ticks
    gateSecret,  \* the jwtSecret routes.Register hands to middleware.Auth
    users,       \* rows of the users table
    nextID,      \* next value of the users id sequence
    issued,      \* tokens GenerateJWT has returned, with the call's facts
    hashes,      \* what HashPassword has returned so far, in order of the calls
    req          \* the requests in flight, one per slot

vars == <<clock, jwtSecret, jwtExpiry, gateSecret, users, nextID, issued, hashes, req>>

\* role is a "role" key of the JSON body, which no request struct has a field for
NoBody == [email |-> "", password |-> <<>>, id |-> <<>>, name |-> "", dob |-> "",
           page |-> <<>>, limit |-> <<>>, role |-> "", ok |-> TRUE]

\* the Set-Cookie of a response, if any
NoCookie == [set |-> FALSE, value |-> NoToken, maxAge |-> 0]

Idle ==
    [ stage |-> "idle", rest |-> <<>>, allowed |-> <<>>, route |-> "",
      header |-> <<>>, authAt |-> 0, locals |-> NoLocal, body |-> NoBody,
      resp |-> NoResponse, cookie |-> NoCookie, trace |-> <<>>,
      calls |-> <<>>, storeErr |-> Nil, err |-> Nil,
      now |-> NoDate, years |-> 0, days |-> 0, dob |-> NoDate, age |-> 0 ]

\* the server after main has wired it: configuration loaded from the
\* environment, the service not yet given its JWT configuration
Init ==
    /\ clock = 0
    /\ jwtSecret = ""
    /\ jwtExpiry = 0
    /\ \E env \in Envs : gateSecret = Load(env).JWTSecret
    /\ users = SeedUsers
    /\ nextID = 3
    /\ issued = {}
    /\ hashes = <<>>
    /\ req = [r \in Slots |-> Idle]

\* time passes
Tick ==
    /\ clock < MaxClock
    /\ clock' = clock + 1
    /\ UNCHANGED <<jwtSecret, jwtExpiry, gateSecret, users, nextID, issued, req, hashes>>

\* AuthService.SetJWTConfig
SetJWTConfig(secret, expiry) ==
    /\ jwtSecret' = secret
    /\ jwtExpiry' = expiry
    /\ UNCHANGED <<clock, gateSecret, users, nextID, issued, req, hashes>>

\* a request arrives on a chain of stages
Mount(r, route, chain, allowed, locals) ==
    /\ req[r].stage = "idle"
    /\ req' = [req EXCEPT ![r] =
                 [Idle EXCEPT !.stage = Head(chain), !.rest = Tail(chain),
                              !.allowed = allowed, !.route = route,
                              !.locals = locals]]
    /\ UNCHANGED <<clock, jwtSecret, jwtExpiry, gateSecret, users, nextID, issued, hashes>>

\* a request arrives on a route of routes.Register
NewRequest(r, route) ==
    Mount(r, route, Register[route].chain, Register[route].allowed, NoLocal)

\* the stage a gate's result leads to
Advance(q, g, stage) ==
    IF g.next
    THEN [q EXCEPT !.stage = Head(q.rest), !.rest = Tail(q.rest),
                   !.trace = Append(q.trace, stage)]
    ELSE [q EXCEPT !.stage = "done", !.rest = <<>>, !.resp = g.resp,
                   !.trace = Append(q.trace, stage)]

\* an Auth Gate that also wants the token's user to be in the user store
AuthStep_ChecksStore(r, authHeader) ==
    /\ req[r].stage = "Auth"
    /\ LET a == Auth(gateSecret, authHeader, clock)
           g == IF a.next /\ ~\E u \in users : u.ID = a.locals.ID
                THEN GateResult(FALSE, SendUnauthorized("Unauthorized"), NoLocal)
                ELSE a
           q == [req[r] EXCEPT !.header = authHeader, !.authAt = clock,
                               !.locals = IF g.next THEN g.locals ELSE @]
       IN  req' = [req EXCEPT ![r] = Advance(q, g, "Auth")]
    /\ UNCHANGED <<clock, jwtSecret, jwtExpiry, gateSecret, users, nextID, issued, hashes>>

\* an Auth Gate that keeps the principal in one place for all requests
AuthStep_SharedLocals(r, authHeader) ==
    /\ req[r].stage = "Auth"
    /\ LET g == Auth(gateSecret, authHeader, clock)
           q == [req[r] EXCEPT !.header = authHeader, !.authAt = clock,
                               !.locals = IF g.next THEN g.locals ELSE @]
       IN  req' = [s \in DOMAIN req |->
                     IF s = r THEN Advance(q, g, "Auth")
                     ELSE IF g.next THEN [req[s] EXCEPT !.locals = g.locals]
                     ELSE req[s]]
    /\ UNCHANGED <<clock, jwtSecret, jwtExpiry, gateSecret, users, nextID, issued, hashes>>

\* the Auth Gate runs on request r, which carries this Authorization header
AuthStep(r, authHeader) ==
    /\ req[r].stage = "Auth"
    /\ LET g == Auth(gateSecret, authHeader, clock)
           q == [req[r] EXCEPT !.header = authHeader, !.authAt = clock,
                               !.locals = IF g.next THEN g.locals ELSE @]
       IN  req' = [req EXCEPT ![r] = Advance(q, g, "Auth")]
    /\ UNCHANGED <<clock, jwtSecret, jwtExpiry, gateSecret, users, nextID, issued, hashes>>

\* the Role Gate runs on request r
RequireRoleStep(r) ==
    /\ req[r].stage = "RequireRole"
    /\ LET g == RequireRole(req[r].allowed, req[r].locals)
       IN  req' = [req EXCEPT ![r] = Advance(req[r], g, "RequireRole")]
    /\ UNCHANGED <<clock, jwtSecret, jwtExpiry, gateSecret, users, nextID, issued, hashes>>

\* the response has been sent: the request and its Locals are gone
Complete(r) ==
    /\ req[r].stage = "done"
    /\ req' = [req EXCEPT ![r] = Idle]
    /\ UNCHANGED <<clock, jwtSecret, jwtExpiry, gateSecret, users, nextID, issued, hashes>>

\* ------------------------------------------------------- handler plumbing
\* strconv.Atoi on a string given as its characters
Digits == <<"0", "1", "2", "3", "4", "5", "6", "7", "8", "9">>
IsDigit(c) == \E i \in 1..Len(Digits) : Digits[i] = c
DigitVal(c) == (CHOOSE i \in 1..Len(Digits) : Digits[i] = c) - 1

RECURSIVE DigitsVal(_)
DigitsVal(s) ==
    IF s = <<>> THEN 0
    ELSE DigitsVal(SubSeq(s, 1, Len(s) - 1)) * 10 + DigitVal(s[Len(s)])

Atoi(s) ==
    LET signed == s # <<>> /\ s[1] \in {"+", "-"}
        ds == IF signed THEN Tail(s) ELSE s
    IN  IF ds = <<>> \/ \E i \in 1..Len(ds) : ~IsDigit(ds[i])
        THEN [err |-> "invalid syntax", n |-> 0]
        ELSE [err |-> "",
              n |-> IF signed /\ s[1] = "-" THEN 0 - DigitsVal(ds) ELSE DigitsVal(ds)]

\* validator tags of models.LoginRequest and models.UserRequest
IsEmail(e) == e \in WellFormedEmails
IsDate(d) == d \in Dates
ValidLoginRequest(b) == b.email # "" /\ IsEmail(b.email) /\ b.password # <<>>
ValidUserRequest(b) == b.name # "" /\ Len(b.name) >= 2 /\ b.dob # "" /\ IsDate(b.dob)

\* the fields of a user a response may carry; EmptyHash where the response
\* has no password_hash field
View(id, name, email, role, dob) ==
    [ID |-> id, Name |-> name, Email |-> email, Role |-> role, Dob |-> dob,
     PasswordHash |-> EmptyHash]
UserResponse(u) == View(u.ID, u.Name, "", "", u.Dob)
LoginUser(u) == View(u.ID, u.Name, u.Email, u.Role, "")
\* a ListUsers that selects the password_hash column too
ListUsersRow_WithHash(u) ==
    [View(u.ID, u.Name, u.Email, u.Role, u.Dob) EXCEPT !.PasswordHash = u.PasswordHash]

\* a row of ListUsers :many
ListUsersRow(u) == View(u.ID, u.Name, u.Email, u.Role, u.Dob)

RECURSIVE ByID(_)
\* the rows ORDER BY id
ByID(store) ==
    IF store = {} THEN <<>>
    ELSE LET u == CHOOSE x \in store : \A y \in store : x.ID <= y.ID
         IN  <<u>> \o ByID(store \ {u})

Elements(sq) == {sq[i] : i \in 1..Len(sq)}

MapSeq(f(_), sq) == [i \in 1..Len(sq) |-> f(sq[i])]

\* LIMIT limit OFFSET offset
LimitOffset(rows, limit, offset) ==
    IF offset >= Len(rows) THEN <<>>
    ELSE SubSeq(rows, offset + 1,
                IF offset + limit < Len(rows) THEN offset + limit ELSE Len(rows))

\* the handler of request r ends with this response
Finish(r, stage, body, resp, cookie) ==
    req' = [req EXCEPT ![r] =
              [@ EXCEPT !.stage = "done", !.rest = <<>>, !.body = body,
                        !.resp = resp, !.cookie = cookie,
                        !.trace = Append(@, stage)]]

\* ------------------------------------------------------------ AuthHandler
\* time.Duration.Seconds() converted to int
WholeSeconds(d) == IF d >= 0 THEN d \div Second ELSE 0 - ((0 - d) \div Second)

\* the response AuthHandler.Login writes for a body and a service result
LoginResponse(b, res) ==
    IF ~b.ok THEN SendBadRequest("Invalid request body")
    ELSE IF ~ValidLoginRequest(b)
    THEN SendError(StatusBadRequest, "validation failed", "VALIDATION_FAILED")
    ELSE IF res.err = "ErrInvalidCredentials"
    THEN SendError(StatusUnauthorized, "Invalid email or password", "INVALID_CREDENTIALS")
    ELSE IF res.err # ""
    THEN SendInternalError("Failed to authenticate user")
    ELSE SendJSON(StatusOK, "Login successful", <<LoginUser(res.user)>>, 0)

\* the cookie AuthHandler.Login sets
LoginCookie(b, res, expiry) ==
    IF b.ok /\ ValidLoginRequest(b) /\ res.err = ""
    THEN [set |-> TRUE, value |-> res.token, maxAge |-> WholeSeconds(expiry)]
    ELSE NoCookie

\* what is remembered of a call of GenerateJWT that returned a token
Issue(tok, at, expiry, uid, role) ==
    [tok |-> tok, at |-> at, expiry |-> expiry, uid |-> uid, role |-> role]

\* AuthHandler.Login: POST /auth/login
LoginHandler(r, b, dbErr) ==
    /\ req[r].stage = "LoginHandler"
    /\ LET res == Login(users, jwtSecret, jwtExpiry, clock, b.email, b.password, dbErr)
           called == b.ok /\ ValidLoginRequest(b)
           found == GetByEmail(users, b.email, dbErr)
       IN  /\ req' = [req EXCEPT ![r] =
                        [@ EXCEPT !.stage = "done", !.rest = <<>>, !.body = b,
                                  !.resp = LoginResponse(b, res),
                                  !.cookie = LoginCookie(b, res, jwtExpiry),
                                  !.storeErr = IF called /\ found.err # ""
                                               THEN Error("", <<found.err>>) ELSE Nil,
                                  !.trace = Append(@, "LoginHandler")]]
           /\ issued' = IF called /\ res.err = "" /\ Cardinality(issued) < MaxIssued
                        THEN issued \cup {Issue(res.token, clock, jwtExpiry,
                                                res.user.ID, res.user.Role)}
                        ELSE issued
    /\ UNCHANGED <<clock, jwtSecret, jwtExpiry, gateSecret, users, nextID, hashes>>

\* ------------------------------------------------------------------ signup
\* what the pgx driver reports for a violated unique constraint on email
UniqueViolation ==
    Error("", <<"ERROR:", "duplicate", "key", "value", "violates", "unique",
                "constraint", "\"users_email_key\"", "(SQLSTATE", "23505)">>)
\* what it reports when the database cannot be reached
ConnectionRefused ==
    Error("", <<"failed", "to", "connect:", "connection", "refused">>)
DbFaults == {"none", "down"}

\* the two texts CreateUser takes for a duplicate email
DuplicateKeyBare ==
    <<"duplicate", "key", "value", "violates", "unique", "constraint">>
DuplicateKeyPq ==
    <<"pq:">> \o DuplicateKeyBare \o <<"\"users_email_key\"">>

\* a users table without the unique constraint on email
CreateWithAuth_NoUnique(store, id, name, email, passwordHash, role, dob, dbFault) ==
    IF dbFault = "down" THEN [err |-> ConnectionRefused, row |-> NoUser]
    ELSE [err |-> Nil, row |-> User(id, name, email, passwordHash, role, dob)]

\* UserRepository.CreateWithAuth / CreateUser :one, the email column unique
CreateWithAuth(store, id, name, email, passwordHash, role, dob, dbFault) ==
    IF dbFault = "down" THEN [err |-> ConnectionRefused, row |-> NoUser]
    ELSE IF \E u \in store : u.Email = email
    THEN [err |-> UniqueViolation, row |-> NoUser]
    ELSE [err |-> Nil, row |-> User(id, name, email, passwordHash, role, dob)]

\* the outcome of CreateUser: its error, the row it stored, the calls it
\* made in order, the hash it had made, and the error the store gave it
CreateUserResult(err, row, calls, hash, storeErr) ==
    [err |-> err, row |-> row, calls |-> calls, hash |-> hash,
     storeErr |-> storeErr]

\* a CreateUser that hashes the password before it looks at the policy
CreateUser_HashFirst(store, id, salt, tooLongFails, dbFault, name, email, password, dobStr, role0) ==
    LET pol == ValidatePasswordStrength(password)
        h == HashPassword(password, salt, tooLongFails)
        role == IF role0 = "" THEN "user" ELSE role0
        ins == CreateWithAuth(store, id, name, email, h.hash, role, dobStr, dbFault)
        c1 == <<"HashPassword">>
        c2 == c1 \o <<"ValidatePasswordStrength">>
        c3 == c2 \o <<"time.Parse">>
        c4 == c3 \o <<"CreateWithAuth">>
    IN  IF h.err # Nil THEN CreateUserResult(h.err, NoUser, c1, EmptyHash, Nil)
        ELSE IF pol # Nil THEN CreateUserResult(pol, NoUser, c2, h.hash, Nil)
        ELSE IF ~IsDate(dobStr)
        THEN CreateUserResult(Errorf(<<"invalid", "date", "format:">>,
                                     Error("", <<"parsing", "time">>)),
                              NoUser, c3, h.hash, Nil)
        ELSE IF ins.err # Nil
        THEN CreateUserResult(Errorf(<<"failed", "to", "create", "user:">>, ins.err),
                              NoUser, c4, h.hash, ins.err)
        ELSE CreateUserResult(Nil, ins.row, c4, h.hash, Nil)

\* a CreateUser that parses the date of birth before it hashes the password
CreateUser_ParseFirst(store, id, salt, tooLongFails, dbFault, name, email, password, dobStr, role0) ==
    LET pol == ValidatePasswordStrength(password)
        h == HashPassword(password, salt, tooLongFails)
        role == IF role0 = "" THEN "user" ELSE role0
        ins == CreateWithAuth(store, id, name, email, h.hash, role, dobStr, dbFault)
        c1 == <<"ValidatePasswordStrength">>
        c2 == c1 \o <<"time.Parse">>
        c3 == c2 \o <<"HashPassword">>
        c4 == c3 \o <<"CreateWithAuth">>
    IN  IF pol # Nil THEN CreateUserResult(pol, NoUser, c1, EmptyHash, Nil)
        ELSE IF ~IsDate(dobStr)
        THEN CreateUserResult(Errorf(<<"invalid", "date", "format:">>,
                                     Error("", <<"parsing", "time">>)),
                              NoUser, c2, EmptyHash, Nil)
        ELSE IF h.err # Nil THEN CreateUserResult(h.err, NoUser, c3, EmptyHash, Nil)
        ELSE IF ins.err # Nil
        THEN IF ins.err.words = DuplicateKeyBare \/ ins.err.words = DuplicateKeyPq
             THEN CreateUserResult(ErrEmailAlreadyExists, NoUser, c4, h.hash, ins.err)
             ELSE CreateUserResult(Errorf(<<"failed", "to", "create", "user:">>, ins.err),
                                   NoUser, c4, h.hash, ins.err)
        ELSE CreateUserResult(Nil, ins.row, c4, h.hash, Nil)

\* AuthService.CreateUser
CreateUser(store, id, salt, tooLongFails, dbFault, name, email, password, dobStr, role0) ==
    LET pol == ValidatePasswordStrength(password)
        h == HashPassword(password, salt, tooLongFails)
        role == IF role0 = "" THEN "user" ELSE role0
        ins == CreateWithAuth(store, id, name, email, h.hash, role, dobStr, dbFault)
        c1 == <<"ValidatePasswordStrength">>
        c2 == c1 \o <<"HashPassword">>
        c3 == c2 \o <<"time.Parse">>
        c4 == c3 \o <<"CreateWithAuth">>
    IN  IF pol # Nil THEN CreateUserResult(pol, NoUser, c1, EmptyHash, Nil)
        ELSE IF h.err # Nil THEN CreateUserResult(h.err, NoUser, c2, EmptyHash, Nil)
        ELSE IF ~IsDate(dobStr)
        THEN CreateUserResult(Errorf(<<"invalid", "date", "format:">>,
                                     Error("", <<"parsing", "time">>)),
                              NoUser, c3, h.hash, Nil)
        ELSE IF ins.err # Nil
        THEN IF ins.err.words = DuplicateKeyBare \/ ins.err.words = DuplicateKeyPq
             THEN CreateUserResult(ErrEmailAlreadyExists, NoUser, c4, h.hash, ins.err)
             ELSE CreateUserResult(Errorf(<<"failed", "to", "create", "user:">>, ins.err),
                                   NoUser, c4, h.hash, ins.err)
        ELSE CreateUserResult(Nil, ins.row, c4, h.hash, Nil)

ValidSignupRequest(b) ==
    /\ b.name # "" /\ Len(b.name) >= 2
    /\ b.email # "" /\ IsEmail(b.email)
    /\ b.password # <<>>
    /\ b.dob # "" /\ IsDate(b.dob)

\* models.SignupResponse
SignupResponse(u) == View(u.ID, u.Name, u.Email, u.Role, "")

\* the salt bcrypt draws for the next hash: one no hash has had
NextSalt == Cardinality(SeedUsers) + Len(hashes) + 1

\* a Signup that knows a duplicate email by the service's sentinel alone
SignupOutcome_SentinelOnly(b, res) ==
    LET pol == ValidatePasswordStrength(b.password) IN
    IF ~b.ok
    THEN [resp |-> SendBadRequest("Invalid request body"), calls |-> <<>>,
          called |-> FALSE]
    ELSE IF ~ValidSignupRequest(b)
    THEN [resp |-> SendError(StatusBadRequest, "validation failed", "VALIDATION_FAILED"),
          calls |-> <<>>, called |-> FALSE]
    ELSE IF pol # Nil
    THEN [resp |-> SendError(StatusBadRequest, ErrorText(pol.words), "VALIDATION_FAILED"),
          calls |-> <<"ValidatePasswordStrength">>, called |-> FALSE]
    ELSE [resp |->
            IF res.err = Nil
            THEN SendJSON(StatusCreated, "", <<SignupResponse(res.row)>>, 0)
            ELSE IF res.err.id = "ErrEmailAlreadyExists"
            THEN SendConflict("Email already exists")
            ELSE SendInternalError("Failed to create user"),
          calls |-> <<"ValidatePasswordStrength", "CreateUser">> \o res.calls,
          called |-> TRUE]

\* what AuthHandler.Signup does with a body: the response, the calls in
\* order, and the outcome of CreateUser if it was called
SignupOutcome(b, res) ==
    LET pol == ValidatePasswordStrength(b.password) IN
    IF ~b.ok
    THEN [resp |-> SendBadRequest("Invalid request body"), calls |-> <<>>,
          called |-> FALSE]
    ELSE IF ~ValidSignupRequest(b)
    THEN [resp |-> SendError(StatusBadRequest, "validation failed", "VALIDATION_FAILED"),
          calls |-> <<>>, called |-> FALSE]
    ELSE IF pol # Nil
    THEN [resp |-> SendError(StatusBadRequest, ErrorText(pol.words), "VALIDATION_FAILED"),
          calls |-> <<"ValidatePasswordStrength">>, called |-> FALSE]
    ELSE [resp |->
            IF res.err = Nil
            THEN SendJSON(StatusCreated, "", <<SignupResponse(res.row)>>, 0)
            ELSE IF res.err.id = "ErrEmailAlreadyExists"
            THEN SendConflict("Email already exists")
            ELSE IF \/ Contains(res.err.words, <<"duplicate", "key">>)
                    \/ Contains(res.err.words, <<"unique", "constraint">>)
            THEN SendConflict("Email already exists")
            ELSE SendInternalError("Failed to create user"),
          calls |-> <<"ValidatePasswordStrength", "CreateUser">> \o res.calls,
          called |-> TRUE]

\* a signup handler that takes the role from the request body
Signup_RoleFromBody(r, b, tooLongFails, dbFault) ==
    /\ req[r].stage = "Signup"
    /\ LET res == CreateUser(users, nextID, NextSalt, tooLongFails, dbFault,
                             b.name, b.email, b.password, b.dob, b.role)
           out == SignupOutcome(b, res)
           hashed == out.called /\ "HashPassword" \in Elements(res.calls)
           inserting == out.called /\ "CreateWithAuth" \in Elements(res.calls)
                        /\ dbFault = "none"
       IN  /\ hashed => Len(hashes) < MaxHashes
           /\ inserting => nextID <= MaxUserID
           /\ req' = [req EXCEPT ![r] =
                        [@ EXCEPT !.stage = "done", !.rest = <<>>, !.body = b,
                                  !.resp = out.resp, !.calls = out.calls,
                                  !.storeErr = IF out.called THEN res.storeErr ELSE Nil,
                                  !.err = IF out.called THEN res.err ELSE Nil,
                                  !.trace = Append(@, "Signup")]]
           /\ users' = IF out.called /\ res.err = Nil THEN users \cup {res.row}
                       ELSE users
           /\ nextID' = IF inserting THEN nextID + 1 ELSE nextID
           /\ hashes' = IF hashed /\ res.hash # EmptyHash
                        THEN Append(hashes, [password |-> b.password, hash |-> res.hash])
                        ELSE hashes
    /\ UNCHANGED <<clock, jwtSecret, jwtExpiry, gateSecret, issued>>

\* AuthHandler.Signup: POST /auth/signup
Signup(r, b, tooLongFails, dbFault) ==
    /\ req[r].stage = "Signup"
    /\ LET res == CreateUser(users, nextID, NextSalt, tooLongFails, dbFault,
                             b.name, b.email, b.password, b.dob, "user")
           out == SignupOutcome(b, res)
           hashed == out.called /\ "HashPassword" \in Elements(res.calls)
           inserting == out.called /\ "CreateWithAuth" \in Elements(res.calls)
                        /\ dbFault = "none"
       IN  /\ hashed => Len(hashes) < MaxHashes
           /\ inserting => nextID <= MaxUserID
           /\ req' = [req EXCEPT ![r] =
                        [@ EXCEPT !.stage = "done", !.rest = <<>>, !.body = b,
                                  !.resp = out.resp, !.calls = out.calls,
                                  !.storeErr = IF out.called THEN res.storeErr ELSE Nil,
                                  !.err = IF out.called THEN res.err ELSE Nil,
                                  !.trace = Append(@, "Signup")]]
           /\ users' = IF out.called /\ res.err = Nil THEN users \cup {res.row}
                       ELSE users
           /\ nextID' = IF inserting THEN nextID + 1 ELSE nextID
           /\ hashes' = IF hashed /\ res.hash # EmptyHash
                        THEN Append(hashes, [password |-> b.password, hash |-> res.hash])
                        ELSE hashes
    /\ UNCHANGED <<clock, jwtSecret, jwtExpiry, gateSecret, issued>>

\* a caller of the AuthService interface calls CreateUser itself
CreateUserCall(r, b, role0, tooLongFails, dbFault) ==
    /\ req[r].stage = "idle"
    /\ LET res == CreateUser(users, nextID, NextSalt, tooLongFails, dbFault,
                             b.name, b.email, b.password, b.dob, role0)
           hashed == "HashPassword" \in Elements(res.calls)
           inserting == "CreateWithAuth" \in Elements(res.calls) /\ dbFault = "none"
       IN  /\ hashed => Len(hashes) < MaxHashes
           /\ inserting => nextID <= MaxUserID
           /\ req' = [req EXCEPT ![r] =
                        [Idle EXCEPT !.stage = "done", !.route = "CreateUser",
                                     !.body = [b EXCEPT !.role = role0],
                                     !.calls = res.calls, !.storeErr = res.storeErr,
                                     !.err = res.err, !.trace = <<"CreateUser">>]]
           /\ users' = IF res.err = Nil THEN users \cup {res.row} ELSE users
           /\ nextID' = IF inserting THEN nextID + 1 ELSE nextID
           /\ hashes' = IF hashed /\ res.hash # EmptyHash
                        THEN Append(hashes, [password |-> b.password, hash |-> res.hash])
                        ELSE hashes
    /\ UNCHANGED <<clock, jwtSecret, jwtExpiry, gateSecret, issued>>

\* calculateAge called today on a date of birth that lies a number of
\* years and days back, as TestCalculateAgeEdgeCases makes it
CalculateAge(r, now, years, days) ==
    /\ req[r].stage = "idle"
    /\ LET dob == AddDate(now, 0 - years, 0, days)
       IN  req' = [req EXCEPT ![r] =
                     [Idle EXCEPT !.stage = "done", !.route = "calculateAge",
                                  !.trace = <<"calculateAge">>,
                                  !.now = now, !.years = years, !.days = days,
                                  !.dob = dob, !.age = calculateAge(now, dob)]]
    /\ UNCHANGED <<clock, jwtSecret, jwtExpiry, gateSecret, users, nextID, issued, hashes>>

\* ------------------------------------------------------------ UserHandler
DefaultLimit == 10
MaxLimit == 100

\* UserService.GetUserWithAge (the age field is left to calculateAge)
GetUserWithAge(store, id, dbErr) ==
    IF dbErr THEN [err |-> "db error", user |-> NoUser] ELSE GetByID(store, id)

\* UserHandler.GetCurrentUser: GET /users/me
GetCurrentUser(r, dbErr) ==
    /\ req[r].stage = "GetCurrentUser"
    /\ LET authUser == GetAuthUser(req[r].locals)
           got == GetUserWithAge(users, authUser.ID, dbErr)
           resp == IF authUser = NoLocal THEN SendUnauthorized("Unauthorized")
                   ELSE IF got.err # "" THEN SendNotFound("User not found")
                   ELSE SendJSON(StatusOK, "user", <<UserResponse(got.user)>>, 0)
       IN  Finish(r, "GetCurrentUser", NoBody, resp, NoCookie)
    /\ UNCHANGED <<clock, jwtSecret, jwtExpiry, gateSecret, users, nextID, issued, hashes>>

\* UserRepository.Create: a row without credentials; the email column is unique
CanInsert(store, email, dbErr) == ~dbErr /\ ~\E u \in store : u.Email = email

\* UserHandler.Create: POST /users
Create(r, b, dbErr) ==
    /\ req[r].stage = "Create"
    /\ nextID <= MaxUserID
    /\ LET valid == b.ok /\ ValidUserRequest(b)
           row == User(nextID, b.name, "", EmptyHash, "user", b.dob)
           stored == valid /\ CanInsert(users, "", dbErr)
           resp == IF ~b.ok THEN SendBadRequest("Invalid request body")
                   ELSE IF ~ValidUserRequest(b)
                   THEN SendError(StatusBadRequest, "validation failed", "VALIDATION_FAILED")
                   ELSE IF ~stored THEN SendInternalError("Failed to create user")
                   ELSE SendJSON(StatusCreated, "user", <<UserResponse(row)>>, 0)
       IN  /\ Finish(r, "Create", b, resp, NoCookie)
           /\ users' = IF stored THEN users \cup {row} ELSE users
           /\ nextID' = IF valid /\ ~dbErr THEN nextID + 1 ELSE nextID
    /\ UNCHANGED <<clock, jwtSecret, jwtExpiry, gateSecret, issued, hashes>>

\* UserHandler.GetByID: GET /users/:id
GetByIDHandler(r, b, dbErr) ==
    /\ req[r].stage = "GetByID"
    /\ LET id == Atoi(b.id)
           got == GetUserWithAge(users, id.n, dbErr)
           resp == IF id.err # "" THEN SendBadRequest("Invalid user ID")
                   ELSE IF got.err # "" THEN SendNotFound("User not found")
                   ELSE SendJSON(StatusOK, "user", <<UserResponse(got.user)>>, 0)
       IN  Finish(r, "GetByID", b, resp, NoCookie)
    /\ UNCHANGED <<clock, jwtSecret, jwtExpiry, gateSecret, users, nextID, issued, hashes>>

\* int32(a * b) for 0 <= a < 2^31 and 0 <= b <= MaxLimit, the product taken
\* in 64 bits as Go's int does and cut to its low 32 bits, computed on 16-bit
\* halves
Int32Product(a, b) ==
    LET lo == a % 65536
        hi == a \div 65536
        l == (lo * b) % 65536
        h == (hi * b + ((lo * b) \div 65536)) % 65536
    IN  IF h >= 32768 THEN (h - 65536) * 65536 + l ELSE h * 65536 + l

\* UserService.ListUsersWithAgePaginated; the store refuses a negative
\* OFFSET, which UserHandler.List answers with 500
ListUsersWithAgePaginated(store, page0, limit0) ==
    LET page == IF page0 < 1 THEN 1 ELSE page0
        limit == IF limit0 < 1 \/ limit0 > MaxLimit THEN DefaultLimit ELSE limit0
        offset == Int32Product(page - 1, limit)
        total == Cardinality(store)
        rows == LimitOffset(ByID(store), limit, offset)
        totalPages == (total \div limit) + (IF total % limit # 0 THEN 1 ELSE 0)
    IN  IF offset < 0 THEN SendInternalError("Failed to list users")
        ELSE [ SendJSON(StatusOK, "users", MapSeq(UserResponse, rows), total)
                 EXCEPT !.meta = [Page |-> page, Limit |-> limit, TotalPages |-> totalPages,
                                  HasNext |-> page < totalPages, HasPrevious |-> page > 1] ]

\* UserHandler.List: GET /users
List(r, b, dbErr) ==
    /\ req[r].stage = "List"
    /\ LET page0 == Atoi(b.page).n
           limit0 == Atoi(b.limit).n
           page == IF page0 < 1 THEN 1 ELSE page0
           limit == IF limit0 < 1 THEN DefaultLimit ELSE limit0
           resp == IF dbErr THEN SendInternalError("Failed to list users")
                   ELSE IF b.page # <<>> \/ b.limit # <<>>
                   THEN ListUsersWithAgePaginated(users, page, limit)
                   ELSE SendJSON(StatusOK, "users", MapSeq(UserResponse, ByID(users)), 0)
       IN  Finish(r, "List", b, resp, NoCookie)
    /\ UNCHANGED <<clock, jwtSecret, jwtExpiry, gateSecret, users, nextID, issued, hashes>>

\* UserHandler.Update: PUT /users/:id
Update(r, b, dbErr) ==
    /\ req[r].stage = "Update"
    /\ LET id == Atoi(b.id)
           valid == id.err = "" /\ b.ok /\ ValidUserRequest(b)
           got == GetUserWithAge(users, id.n, dbErr)
           row == [got.user EXCEPT !.Name = b.name, !.Dob = b.dob]
           resp == IF id.err # "" THEN SendBadRequest("Invalid user ID")
                   ELSE IF ~b.ok THEN SendBadRequest("Invalid request body")
                   ELSE IF ~ValidUserRequest(b)
                   THEN SendError(StatusBadRequest, "validation failed", "VALIDATION_FAILED")
                   ELSE IF got.err # "" THEN SendNotFound("User not found")
                   ELSE SendJSON(StatusOK, "user", <<UserResponse(row)>>, 0)
       IN  /\ Finish(r, "Update", b, resp, NoCookie)
           /\ users' = IF valid /\ got.err = ""
                       THEN (users \ {got.user}) \cup {row} ELSE users
    /\ UNCHANGED <<clock, jwtSecret, jwtExpiry, gateSecret, nextID, issued, hashes>>

\* UserHandler.Delete: DELETE /users/:id (DeleteUser :exec fails only when
\* the database does)
Delete(r, b, dbErr) ==
    /\ req[r].stage = "Delete"
    /\ LET id == Atoi(b.id)
           resp == IF id.err # "" THEN SendBadRequest("Invalid user ID")
                   ELSE IF dbErr THEN SendNotFound("User not found")
                   ELSE SendJSON(StatusNoContent, "", <<>>, 0)
       IN  /\ Finish(r, "Delete", b, resp, NoCookie)
           /\ users' = IF id.err = "" /\ ~dbErr
                       THEN {u \in users : u.ID # id.n} ELSE users
    /\ UNCHANGED <<clock, jwtSecret, jwtExpiry, gateSecret, nextID, issued, hashes>>

\* ----------------------------------------------------------- AdminHandler
\* AdminHandler.GetAllUsers: GET /admin/users (authUser.ID is read unchecked)
GetAllUsers(r, dbErr) ==
    /\ req[r].stage = "GetAllUsers"
    /\ LET authUser == GetAuthUser(req[r].locals)
           resp == IF authUser = NoLocal THEN Panic
                   ELSE IF dbErr THEN SendInternalError("Failed to retrieve users")
                   ELSE SendJSON(StatusOK, "users", MapSeq(ListUsersRow, ByID(users)),
                                 Cardinality(users))
       IN  Finish(r, "GetAllUsers", NoBody, resp, NoCookie)
    /\ UNCHANGED <<clock, jwtSecret, jwtExpiry, gateSecret, users, nextID, issued, hashes>>

\* AdminHandler.GetStats: GET /admin/stats (authUser.ID is read unchecked)
GetStats(r, dbErr) ==
    /\ req[r].stage = "GetStats"
    /\ LET authUser == GetAuthUser(req[r].locals)
           resp == IF authUser = NoLocal THEN Panic
                   ELSE IF dbErr THEN SendInternalError("Failed to retrieve statistics")
                   ELSE SendJSON(StatusOK, "Admin statistics", <<>>, Cardinality(users))
       IN  Finish(r, "GetStats", NoBody, resp, NoCookie)
    /\ UNCHANGED <<clock, jwtSecret, jwtExpiry, gateSecret, users, nextID, issued, hashes>>

\* ---------------------------------------------------------- client inputs
Bearer(t) == <<Word("Bearer"), SP, Jwt(t)>>

Body(email, password, id, name, dob, page, limit) ==
    [email |-> email, password |-> password, id |-> id, name |-> name,
     dob |-> dob, page |-> page, limit |-> limit, role |-> "", ok |-> TRUE]

Unparsable == [NoBody EXCEPT !.ok = FALSE]

LoginBodies ==
    { Body(e, p, <<>>, "", "", <<>>, <<>>) :
        e \in WellFormedEmails \cup {"bad"}, p \in Passwords \cup {<<>>} }
    \cup {Unparsable}

IdParams == {<<"2">>, <<"3">>, <<"x">>}
IdBodies == { Body("", <<>>, id, "", "", <<>>, <<>>) : id \in IdParams }

UserBodies ==
    { Body("", <<>>, <<"2">>, "Al", "1990-01-01", <<>>, <<>>),
      Body("", <<>>, <<"2">>, "B", "1990-01-01", <<>>, <<>>),
      Body("", <<>>, <<"2">>, "Al", "bad", <<>>, <<>>),
      Body("", <<>>, <<"-">>, "Al", "1990-01-01", <<>>, <<>>),
      [Unparsable EXCEPT !.id = <<"2">>] }

ListBodies ==
    { Body("", <<>>, <<>>, "", "", pg, lm) :
        pg \in {<<>>, <<"0">>, <<"2">>, <<"6", "7", "1", "0", "8", "8", "6", "5">>},
        lm \in {<<>>, <<"1">>, <<"6", "4">>, <<"1", "0", "1">>} }

\* passwords a client may sign up with: one that meets the policy, ones
\* that break one rule or several, and ones at and over bcrypt's 72 bytes
Rep(c, n) == [i \in 1..n |-> c]
PwStrong == <<"A", "a", "1", "!">> \o Rep("a", 4)
Pw72 == <<"A", "a", "1", "!">> \o Rep("a", BcryptKeyBytes - 4)
Pw73 == Pw72 \o <<"b">>
WeakPasswords ==
    { <<"A", "a", "1", "!">> \o Rep("a", 3),
      <<"a">>,
      Rep("a", 8),
      <<"a", "1", "!">> \o Rep("a", 5),
      Rep("A", 8),
      <<"A", "1", "!">> \o Rep("A", 5),
      <<"A", "a", "!">> \o Rep("a", 5),
      <<"A", "a">> \o Rep("a", 6),
      <<"A", "a", "1">> \o Rep("a", 5),
      <<"A", "a", "1", " ">> \o Rep("a", 4),
      Rep("1", 8),
      Rep("!", 8) }
StrongPasswords ==
    { PwStrong, <<"z", "Z", "9", "backquote">> \o Rep("\\", 4), Pw72, Pw73 }
SignupPasswords == WeakPasswords \cup StrongPasswords

SignupBodies ==
    { Body(e, p, <<>>, "Al", "1990-01-01", <<>>, <<>>) :
        e \in {"n@x.io", "a@x.io"}, p \in SignupPasswords }
    \cup { Body(e, p, <<>>, n, d, <<>>, <<>>) :
             e \in {"n@x.io", "bad"}, p \in {PwStrong, <<"a">>, <<>>},
             n \in {"Al", "B"}, d \in {"1990-01-01", "bad"} }
    \cup { [Body(e, PwStrong, <<>>, "Al", "1990-01-01", <<>>, <<>>) EXCEPT !.role = "admin"] :
             e \in {"n@x.io", "a@x.io"} }
    \cup {NoBody, Unparsable}

\* logins tried after a signup
SignupLoginBodies ==
    { Body(e, p, <<>>, "", "", <<>>, <<>>) :
        e \in {"n@x.io", "a@x.io"}, p \in {PwAdmin, PwStrong, Pw72, Pw73, <<>>} }

\* the tokens a client may make up: any algorithm, signing key, principal
\* and expiry
Principals == {<<1, "admin">>, <<2, "user">>}
Signings ==
    (HMACAlgs \X (Secrets \cup {""}))
    \cup {<<"RS256", "rsa-private-key">>, <<"none", "">>, <<"XX", DefaultSecret>>}
ExpiryClaims == {<<FALSE, 0>>, <<TRUE, Second>>, <<TRUE, MaxClock>>}

ForgedTokens ==
    { Token(sg[1], sg[2], pr[1], pr[2], 0, ex[1], ex[2]) :
        sg \in Signings, pr \in Principals, ex \in ExpiryClaims }

\* other ways of writing a header around a token
HeadersOf(t) ==
    { <<Word("bearer"), SP, SP, Jwt(t)>>,
      <<Word("Basic"), SP, Jwt(t)>>,
      <<Jwt(t)>>,
      <<Word("Bearer"), SP, Jwt(t), SP, Word("x")>>,
      <<SP, Word("Bearer"), SP, Jwt(t)>>,
      <<Word("Bearer"), TAB, Jwt(t)>>,
      <<Word("bEaReR"), SP, TAB, SP, Jwt(t)>> }

BareHeaders ==
    { <<>>, <<Word("Bearer")>>, <<Word("Bearer"), SP>>, <<Word("BEARER"), SP, SP>>,
      <<Word("Bearer"), SP, Word("garbage")>> }

\* tokens that verify under one of the secrets and never expire
EternalTokens == { Token("HS256", k, 1, "admin", 0, FALSE, 0) : k \in Secrets }

AllHeaders ==
    BareHeaders \cup {Bearer(t) : t \in ForgedTokens}
    \cup UNION {HeadersOf(t) : t \in EternalTokens}

\* the headers a client of the running service sends: none, or a token it
\* was issued
ClientHeaders == {<<>>} \cup {Bearer(x.tok) : x \in issued}

\* ---------------------------------------------------------- specifications
\* the handlers behind the gates
Handlers(r) ==
    \/ \E dbErr \in BOOLEAN : GetCurrentUser(r, dbErr)
    \/ \E b \in UserBodies, dbErr \in BOOLEAN : Create(r, b, dbErr)
    \/ \E b \in IdBodies, dbErr \in BOOLEAN : GetByIDHandler(r, b, dbErr)
    \/ \E b \in ListBodies, dbErr \in BOOLEAN : List(r, b, dbErr)
    \/ \E b \in UserBodies, dbErr \in BOOLEAN : Update(r, b, dbErr)
    \/ \E b \in IdBodies, dbErr \in BOOLEAN : Delete(r, b, dbErr)
    \/ \E dbErr \in BOOLEAN : GetAllUsers(r, dbErr)
    \/ \E dbErr \in BOOLEAN : GetStats(r, dbErr)

\* the routes clients of the running service call
ServiceRoutes == {"login", "users_me", "users_update", "users_delete", "admin_stats"}

\* the service: logins issue tokens, clients present them, time passes, the
\* JWT configuration and the user rows change
Next ==
    \/ \E r \in Req :
        \/ \E route \in ServiceRoutes : NewRequest(r, route)
        \/ \E h \in ClientHeaders : AuthStep(r, h)
        \/ RequireRoleStep(r)
        \/ \E b \in LoginBodies, dbErr \in BOOLEAN : LoginHandler(r, b, dbErr)
        \/ \E dbErr \in BOOLEAN : GetCurrentUser(r, dbErr)
        \/ \E b \in UserBodies, dbErr \in BOOLEAN : Update(r, b, dbErr)
        \/ \E b \in IdBodies, dbErr \in BOOLEAN : Delete(r, b, dbErr)
        \/ \E dbErr \in BOOLEAN : GetStats(r, dbErr)
        \/ Complete(r)
    \/ Tick
    \/ \E secret \in Secrets \cup {""}, expiry \in Expiries : SetJWTConfig(secret, expiry)

Spec == Init /\ [][Next]_vars

\* the gates under any header a client can send
NextGate ==
    \/ \E route \in ProtectedRoutes \cup AdminRoutes : NewRequest(1, route)
    \/ \E h \in AllHeaders : AuthStep(1, h)
    \/ RequireRoleStep(1)
    \/ Handlers(1)
    \/ Complete(1)
    \/ Tick

SpecGate == Init /\ [][NextGate]_vars

\* signing up and logging in, one request at a time
NextSignup ==
    \/ \E route \in {"signup", "login"} : NewRequest(1, route)
    \/ \E b \in SignupBodies, tooLongFails \in BOOLEAN, dbFault \in DbFaults :
          Signup(1, b, tooLongFails, dbFault)
    \/ \E b \in SignupLoginBodies, dbErr \in BOOLEAN : LoginHandler(1, b, dbErr)
    \/ Complete(1)
    \/ SetJWTConfig(DefaultSecret, DefaultExpiryHours * Hour)

SpecSignup == Init /\ [][NextSignup]_vars

\* every endpoint of the service, one request at a time, with the tokens
\* the service has issued
AllSignupBodies ==
    { Body("n@x.io", PwStrong, <<>>, "Al", "1990-01-01", <<>>, <<>>),
      Body("a@x.io", PwStrong, <<>>, "Al", "1990-01-01", <<>>, <<>>),
      Body("n@x.io", Rep("a", 8), <<>>, "Al", "1990-01-01", <<>>, <<>>),
      Body("bad", PwStrong, <<>>, "Al", "1990-01-01", <<>>, <<>>),
      Unparsable }
AllLoginBodies ==
    { Body(e, p, <<>>, "", "", <<>>, <<>>) :
        e \in {"a@x.io", "n@x.io"}, p \in {PwAdmin, PwStrong} }

NextAll ==
    \/ \E route \in DOMAIN Register : NewRequest(1, route)
    \/ \E h \in ClientHeaders : AuthStep(1, h)
    \/ RequireRoleStep(1)
    \/ \E b \in AllSignupBodies, dbFault \in DbFaults : Signup(1, b, TRUE, dbFault)
    \/ \E b \in AllLoginBodies, dbErr \in BOOLEAN : LoginHandler(1, b, dbErr)
    \/ Handlers(1)
    \/ Complete(1)
    \/ SetJWTConfig(DefaultSecret, DefaultExpiryHours * Hour)

SpecAll == Init /\ [][NextAll]_vars

\* requests served side by side, each with its own fiber.Ctx: two clients
\* with tokens of different principals, and clients with none
ConcHeaders ==
    {<<>>} \cup { Bearer(Token("HS256", k, pr[1], pr[2], 0, FALSE, 0)) :
                    k \in Secrets, pr \in Principals }

NextConc ==
    \E r \in Slots :
        \/ \E route \in {"users_me", "admin_stats"} : NewRequest(r, route)
        \/ \E h \in ConcHeaders : AuthStep(r, h)
        \/ RequireRoleStep(r)
        \/ \E dbErr \in BOOLEAN : GetCurrentUser(r, dbErr)
        \/ \E dbErr \in BOOLEAN : GetStats(r, dbErr)
        \/ Complete(r)

SpecConc == Init /\ [][NextConc]_vars

\* signups served side by side.  A handler touches the shared store in one
\* INSERT statement only, which the database runs atomically, so a handler
\* is one step.
NextSignupConc ==
    \E r \in Slots :
        \/ NewRequest(r, "signup")
        \/ \E b \in AllSignupBodies, dbFault \in DbFaults : Signup(r, b, TRUE, dbFault)
        \/ Complete(r)

SpecSignupConc == Init /\ [][NextSignupConc]_vars

\* CreateUser called with any arguments, not only those the signup handler
\* lets through
CreateUserArgs ==
    { Body(e, p, <<>>, "Al", d, <<>>, <<>>) :
        e \in {"n@x.io", "a@x.io"}, p \in {PwStrong, Rep("a", 8), <<"A", "a">>, Pw73},
        d \in {"1990-01-01", "01-01-1990", ""} }

NextCreateUser ==
    \/ \E b \in CreateUserArgs, role0 \in {"", "admin"}, tooLongFails \in BOOLEAN,
          dbFault \in DbFaults : CreateUserCall(1, b, role0, tooLongFails, dbFault)
    \/ Complete(1)

SpecCreateUser == Init /\ [][NextCreateUser]_vars

\* calculateAge on the days around the end of February, the turn of the
\* year and midsummer, in leap years and others
Todays ==
    { Date(y, md[1], md[2]) :
        y \in FirstYear..(FirstYear + MaxYears),
        md \in {<<1, 1>>, <<2, 28>>, <<3, 1>>, <<3, 2>>, <<6, 15>>, <<12, 31>>} }
    \cup { Date(y, 2, 29) : y \in {z \in FirstYear..(FirstYear + MaxYears) : IsLeap(z)} }

NextAge ==
    \/ \E now \in Todays, years \in 0..MaxYears, days \in {-1, 0, 1} :
          CalculateAge(1, now, years, days)
    \/ Complete(1)

SpecAge == Init /\ [][NextAge]_vars

\* the gates mounted in any order in front of a handler, on a request whose
\* Locals may already hold a value that is no AuthUser
OtherLocal == [kind |-> "string", ID |-> 0, Role |-> "admin"]

MountChains ==
    { g \o <<h>> : g \in {<<"RequireRole">>, <<"Auth", "RequireRole">>,
                          <<"RequireRole", "Auth">>},
                   h \in {"GetCurrentUser", "GetStats"} }

AllowedLists ==
    { <<>>, <<"admin">>, <<"user">>, <<"admin", "user">>, <<"root", "admin">>, <<"">> }

MountHeaders ==
    {<<>>} \cup { Bearer(Token("HS256", k, 1, role, 0, FALSE, 0)) :
                    k \in Secrets, role \in Roles \cup {"", "root"} }

NextMount ==
    \/ \E chain \in MountChains, allowed \in AllowedLists, locals \in {NoLocal, OtherLocal} :
          Mount(1, "mounted", chain, allowed, locals)
    \/ \E h \in MountHeaders : AuthStep(1, h)
    \/ RequireRoleStep(1)
    \/ \E dbErr \in BOOLEAN : GetCurrentUser(1, dbErr)
    \/ \E dbErr \in BOOLEAN : GetStats(1, dbErr)
    \/ Complete(1)

SpecMount == Init /\ [][NextMount]_vars

\* ------------------------------------------------------- reading a request
InTrace(q, stage) == \E i \in 1..Len(q.trace) : q.trace[i] = stage

\* stage ran on q and called c.Next()
PassedStage(q, stage) ==
    \E i \in 1..Len(q.trace) :
        q.trace[i] = stage /\ (i < Len(q.trace) \/ q.stage # "done")

\* stage ran on q and ended the request itself
StoppedAt(q, stage) ==
    q.trace # <<>> /\ q.trace[Len(q.trace)] = stage /\ q.stage = "done"

\* the header is the scheme keyword bearer, in any case, and one JWT
IsBearerOf(h, t) ==
    LET f == Fields(h)
    IN  Len(f) = 2 /\ f[1].w \in {"Bearer", "bearer", "BEARER", "bEaReR"} /\ f[2] = Jwt(t)

\* t carries an HMAC signature made with secret and has not expired at now
Verifies(t, secret, now) ==
    t.alg \in {"HS256", "HS384", "HS512"} /\ t.key = secret /\ (t.hasExp => now < t.exp)

GoodBearer(h, secret, now) ==
    \E i \in 1..Len(h) : h[i].w = "" /\ IsBearerOf(h, h[i].t) /\ Verifies(h[i].t, secret, now)

\* C1: Auth Gate fails closed.  On every route behind middleware.Auth the
\* first stage to run is Auth; a request whose header is not a Bearer header
\* with a token that verifies under the configured secret ends at Auth with
\* status 401, with no principal attached and no later stage run.
C1_FailClosed ==
    \A r \in Req :
        LET q == req[r] IN
        q.route \in ProtectedRoutes \cup AdminRoutes =>
            /\ q.stage # "idle" /\ q.trace = <<>> => q.stage = "Auth"
            /\ q.trace # <<>> => q.trace[1] = "Auth"
            /\ q.trace # <<>> /\ ~GoodBearer(q.header, gateSecret, q.authAt) =>
                  /\ StoppedAt(q, "Auth")
                  /\ q.trace = <<"Auth">>
                  /\ q.resp.status = 401
                  /\ q.locals = NoLocal

\* an expired token with a valid signature has been turned away at the gate
C1_Witness ==
    \E r \in Req :
        LET q == req[r] IN
        /\ q.route \in ProtectedRoutes
        /\ StoppedAt(q, "Auth")
        /\ \E t \in ForgedTokens :
              /\ q.header = Bearer(t)
              /\ t.key = gateSecret /\ t.alg = "HS256" /\ t.hasExp /\ t.exp <= q.authAt
        /\ q.resp.status = 401

\* in every state, a login with an unknown email and a login with a known
\* email and a non-matching password get one and the same result
C2_AntiEnumeration ==
    \A b1 \in LoginBodies, b2 \in LoginBodies :
        LET absent == ~\E u \in users : u.Email = b1.email
            wrong == \E u \in users :
                        u.Email = b2.email /\ u.PasswordHash.pw # b2.password
            res1 == Login(users, jwtSecret, jwtExpiry, clock, b1.email, b1.password, FALSE)
            res2 == Login(users, jwtSecret, jwtExpiry, clock, b2.email, b2.password, FALSE)
        IN  absent /\ wrong =>
              /\ res1 = res2
              /\ res1 = LoginResult(NoUser, NoToken, "ErrInvalidCredentials")
              /\ b1.ok /\ ValidLoginRequest(b1) /\ b2.ok /\ ValidLoginRequest(b2) =>
                    /\ LoginResponse(b1, res1) = LoginResponse(b2, res2)
                    /\ LoginResponse(b1, res1).status = 401
                    /\ LoginCookie(b1, res1, jwtExpiry) = NoCookie
                    /\ LoginCookie(b2, res2, jwtExpiry) = NoCookie

\* every step of the Login handler on a parsed, valid body whose
\* credentials match no user row answers with that one 401 and no cookie
C2_Answered ==
    \A r \in Req :
        ( /\ req[r].stage = "LoginHandler" /\ req'[r].stage = "done"
          /\ req'[r].body.ok /\ ValidLoginRequest(req'[r].body)
          /\ ~(\E u \in users :
                  /\ u.Email = req'[r].body.email
                  /\ u.PasswordHash.pw = req'[r].body.password) )
        => /\ req'[r].resp =
                 SendError(401, "Invalid email or password", "INVALID_CREDENTIALS")
           /\ req'[r].cookie = NoCookie

\* C2: Login anti-enumeration.  A login with an email that has no user
\* record and a login with an existing email and a non-matching password get
\* the same service result (empty user, empty token, ErrInvalidCredentials)
\* and the same HTTP answer: 401, the same code and message, no cookie.
C2_Theorem == []C2_AntiEnumeration /\ [][C2_Answered]_vars

\* a login with an existing email and a wrong password has been answered 401
\* while another email has no user record
C2_Witness ==
    \E r \in Req :
        LET q == req[r] IN
        /\ q.stage = "done" /\ q.route = "login"
        /\ \E u \in users : u.Email = q.body.email /\ u.PasswordHash.pw # q.body.password
        /\ q.body.password # <<>>
        /\ q.resp.status = 401
        /\ \E e \in WellFormedEmails : ~\E u \in users : u.Email = e


\* C3: Role Gate.  With a principal attached, RequireRole(allowed...) calls
\* the next handler if and only if the principal's role is in the allowed
\* list; otherwise it answers 403 and no later stage runs.  With an empty
\* list every request is rejected.
C3_RoleGate ==
    \A r \in Req :
        LET q == req[r] IN
        InTrace(q, "RequireRole") /\ q.locals.kind = "AuthUser" =>
            /\ PassedStage(q, "RequireRole") <=> q.locals.Role \in Elements(q.allowed)
            /\ q.locals.Role \notin Elements(q.allowed) =>
                  /\ StoppedAt(q, "RequireRole")
                  /\ q.resp.status = 403
            /\ q.allowed = <<>> => ~PassedStage(q, "RequireRole")

\* a principal has met a Role Gate with an empty allowed list and got 403
C3_Witness ==
    \E r \in Req :
        LET q == req[r] IN
        /\ StoppedAt(q, "RequireRole")
        /\ q.locals.kind = "AuthUser" /\ q.locals.Role = "admin"
        /\ q.allowed = <<>>
        /\ q.resp.status = 403

\* C4: a Role Gate that runs on a request without a principal in its Locals
\* (nothing stored, or a value that is no AuthUser) answers 401, never 403,
\* and no later stage runs.
C4_NoPrincipal ==
    \A r \in Req :
        LET q == req[r] IN
        InTrace(q, "RequireRole") /\ q.locals.kind # "AuthUser" =>
            /\ StoppedAt(q, "RequireRole")
            /\ q.resp.status = 401
            /\ q.resp.status # 403

\* a Role Gate has run on Locals holding a value that is no AuthUser
C4_Witness ==
    \E r \in Req :
        LET q == req[r] IN
        /\ StoppedAt(q, "RequireRole")
        /\ q.locals = OtherLocal
        /\ "admin" \in Elements(q.allowed)
        /\ q.resp.status = 401

IsPrefix(a, b) == Len(a) <= Len(b) /\ SubSeq(b, 1, Len(a)) = a

\* C5: on every /admin route the stages run in the order Auth Gate, Role
\* Gate, handler.  The Role Gate never runs for a request the Auth Gate
\* rejected; without an Authorization header the answer is 401; a valid
\* token with role "user" is answered 403; an admin handler runs only after
\* both gates passed, with the principal in Locals.
C5_AdminOrder ==
    \A r \in Req :
        LET q == req[r] IN
        q.route \in AdminRoutes =>
            /\ \E h \in AdminHandlers : IsPrefix(q.trace, <<"Auth", "RequireRole", h>>)
            /\ StoppedAt(q, "Auth") => ~InTrace(q, "RequireRole")
            /\ q.trace # <<>> /\ q.header = <<>> =>
                  q.stage = "done" /\ q.resp.status = 401
            /\ ( /\ q.stage = "done"
                 /\ \E t \in ForgedTokens :
                       /\ q.header = Bearer(t)
                       /\ Verifies(t, gateSecret, q.authAt)
                       /\ t.role = "user" )
                  => q.resp.status = 403
            /\ (q.stage \in AdminHandlers \/ \E h \in AdminHandlers : InTrace(q, h)) =>
                  /\ Len(q.trace) >= 2
                  /\ SubSeq(q.trace, 1, 2) = <<"Auth", "RequireRole">>
                  /\ q.locals.kind = "AuthUser"
                  /\ q.locals.Role = "admin"
                  /\ q.resp # Panic

\* a valid token with role "user" has been answered 403 on an admin route
C5_Witness ==
    \E r \in Req :
        LET q == req[r] IN
        /\ q.route \in AdminRoutes /\ q.stage = "done"
        /\ q.trace = <<"Auth", "RequireRole">>
        /\ q.locals = AuthUser(2, "user")
        /\ q.resp.status = 403

\* the Auth Gate lets the token of x through at time now, as x's principal
Accepted(x, now) ==
    LET g == Auth(gateSecret, Bearer(x.tok), now)
    IN  g.next /\ g.locals = AuthUser(x.uid, x.role)

\* the requests that presented the token of x at a time satisfying when(_)
\* all passed the gate as x's principal
AcceptedWhen(x, when(_)) ==
    \A r \in Req :
        LET q == req[r] IN
        InTrace(q, "Auth") /\ q.header = Bearer(x.tok) /\ when(q.authAt) =>
            PassedStage(q, "Auth") /\ q.locals = AuthUser(x.uid, x.role)

\* C6, as claimed: for every user id and role and any configured non-empty
\* secret and expiry, a token returned by GenerateJWT and presented at once
\* to an Auth Gate built with the same secret is accepted, the principal
\* being that id and role.
C6_AnyExpiry ==
    \A x \in issued :
        x.tok.key = gateSecret =>
            Accepted(x, x.at) /\ AcceptedWhen(x, LAMBDA t : t = x.at)

\* C6, amended: the same for any configured expiry of at least one second.
C6_RoundTrip ==
    \A x \in issued :
        x.tok.key = gateSecret /\ x.expiry >= Second =>
            Accepted(x, x.at) /\ AcceptedWhen(x, LAMBDA t : t = x.at)

\* the admin's token has been presented in the instant it was issued and
\* passed the gate
C6_Witness ==
    \E r \in Req, x \in issued :
        LET q == req[r] IN
        /\ PassedStage(q, "Auth") /\ q.header = Bearer(x.tok)
        /\ q.authAt = x.at /\ x.expiry >= Second
        /\ x.role = "admin" /\ q.locals = AuthUser(x.uid, "admin")

\* every token with an expires-at at or before now is turned away with 401
RejectsExpired ==
    /\ \A t \in {x.tok : x \in issued} \cup ForgedTokens :
          t.hasExp /\ t.exp <= clock =>
              LET g == Auth(gateSecret, Bearer(t), clock)
              IN  ~g.next /\ g.resp.status = 401
    /\ \A r \in Req, x \in issued :
          LET q == req[r] IN
          InTrace(q, "Auth") /\ q.header = Bearer(x.tok) /\ x.tok.exp <= q.authAt =>
              StoppedAt(q, "Auth") /\ q.resp.status = 401

\* C7, as claimed: every token issued by GenerateJWT carries expires-at =
\* issue time + configured expiry, and the Auth Gate rejects with 401 any
\* token presented at a time now with expires-at <= now.
C7_ExactExpiry ==
    /\ \A x \in issued : x.tok.hasExp /\ x.tok.exp = x.at + x.expiry
    /\ RejectsExpired

\* C7, amended: expires-at is issue time + configured expiry cut down to a
\* whole second; the rejection is as claimed.
C7_Expiry ==
    /\ \A x \in issued :
          /\ x.tok.hasExp
          /\ x.tok.exp % Second = 0
          /\ x.tok.exp <= x.at + x.expiry
          /\ x.at + x.expiry < x.tok.exp + Second
    /\ RejectsExpired

\* a token issued off a second boundary under the gate's secret has been
\* presented at its expires-at and turned away
C7_Witness ==
    \E r \in Req, x \in issued :
        LET q == req[r] IN
        /\ x.tok.key = gateSecret /\ x.expiry > 0 /\ x.at % Second # 0
        /\ q.header = Bearer(x.tok) /\ q.authAt = x.tok.exp
        /\ StoppedAt(q, "Auth") /\ q.resp.status = 401

JwtsOf(h) == {h[i].t : i \in {j \in 1..Len(h) : h[j].w = ""}}

\* C8: the Auth Gate rejects with 401 every token signed with a secret other
\* than the configured one and every token whose header declares algorithm
\* "none", whatever its claims; no principal is attached.
C8_ForeignOrUnsigned ==
    \A r \in Req :
        LET q == req[r] IN
        ( /\ InTrace(q, "Auth")
          /\ JwtsOf(q.header) # {}
          /\ \A t \in JwtsOf(q.header) : t.key # gateSecret \/ t.alg = "none" )
        => /\ StoppedAt(q, "Auth")
           /\ q.trace = <<"Auth">>
           /\ q.resp.status = 401
           /\ q.locals = NoLocal

\* an unsigned token claiming the admin role has been turned away
C8_Witness ==
    \E r \in Req, t \in ForgedTokens :
        LET q == req[r] IN
        /\ t.alg = "none" /\ t.role = "admin" /\ ~t.hasExp
        /\ q.header = Bearer(t)
        /\ StoppedAt(q, "Auth") /\ q.resp.status = 401 /\ q.locals = NoLocal

\* C9, as claimed: the Auth Gate accepts only tokens signed with HS256, the
\* algorithm the issuer uses; a token under any other algorithm, HS384 and
\* HS512 with the right secret included, is rejected with 401.
C9_OnlyHS256 ==
    \A r \in Req :
        LET q == req[r] IN
        ( /\ InTrace(q, "Auth")
          /\ JwtsOf(q.header) # {}
          /\ \A t \in JwtsOf(q.header) : t.alg # "HS256" )
        => StoppedAt(q, "Auth") /\ q.resp.status = 401

\* C10: stateless validity.  A token issued under the gate's secret is
\* accepted at every time before its expires-at, whatever has happened since
\* it was issued: other logins, a change of the issuer's configuration,
\* the deletion or change of the user's row.
C10_Stateless ==
    \A x \in issued :
        x.tok.key = gateSecret =>
            /\ clock < x.tok.exp => Accepted(x, clock)
            /\ AcceptedWhen(x, LAMBDA t : t < x.tok.exp)

\* a token has passed the gate later than it was issued, after its user's
\* row was deleted and the issuer's expiry was changed
C10_Witness ==
    \E r \in Req, x \in issued :
        LET q == req[r] IN
        /\ PassedStage(q, "Auth") /\ q.header = Bearer(x.tok)
        /\ q.authAt > x.at
        /\ ~\E u \in users : u.ID = x.uid
        /\ jwtExpiry # x.expiry

\* the five rules of the password policy, each by itself
TooShort(p) == Len(p) < 8
NoUppercase(p) == \A i \in 1..Len(p) : p[i] \notin UpperChars
NoLowercase(p) == \A i \in 1..Len(p) : p[i] \notin LowerChars
NoDigit(p) == \A i \in 1..Len(p) : p[i] \notin DigitChars
NoSpecial(p) == \A i \in 1..Len(p) : p[i] \notin SpecialChars

\* err is what the policy owes password p: the first violated rule, or nil
FirstViolation(p, err) ==
    /\ err = Nil <=>
          ~(TooShort(p) \/ NoUppercase(p) \/ NoLowercase(p) \/ NoDigit(p) \/ NoSpecial(p))
    /\ err = ErrPasswordTooShort <=> TooShort(p)
    /\ err = ErrPasswordNoUppercase <=> ~TooShort(p) /\ NoUppercase(p)
    /\ err = ErrPasswordNoLowercase <=>
          ~TooShort(p) /\ ~NoUppercase(p) /\ NoLowercase(p)
    /\ err = ErrPasswordNoDigit <=>
          ~TooShort(p) /\ ~NoUppercase(p) /\ ~NoLowercase(p) /\ NoDigit(p)
    /\ err = ErrPasswordNoSpecial <=>
          /\ ~TooShort(p) /\ ~NoUppercase(p) /\ ~NoLowercase(p) /\ ~NoDigit(p)
          /\ NoSpecial(p)

\* a signup whose body was parsed and passed the field validation
SignupChecked(q) ==
    q.stage = "done" /\ q.route = "signup" /\ q.body.ok /\ ValidSignupRequest(q.body)

\* C11: password policy.  ValidatePasswordStrength returns the first
\* violated rule in the order TooShort, NoUppercase, NoLowercase, NoDigit,
\* NoSpecial, and nil exactly when all five rules hold; a signup with a weak
\* password is answered with that one rule's text.
C11_FirstViolation ==
    /\ \A p \in SignupPasswords : FirstViolation(p, ValidatePasswordStrength(p))
    /\ \A r \in Req :
          LET q == req[r] IN
          SignupChecked(q) =>
              \E err \in {Nil, ErrPasswordTooShort, ErrPasswordNoUppercase,
                          ErrPasswordNoLowercase, ErrPasswordNoDigit,
                          ErrPasswordNoSpecial} :
                  /\ FirstViolation(q.body.password, err)
                  /\ err # Nil =>
                        q.resp = SendError(400, ErrorText(err.words), "VALIDATION_FAILED")
                  /\ err = Nil => q.resp.status # 400

\* a signup with a password of eight lower-case letters, which breaks three
\* rules, has been answered with the upper-case rule alone
C11_Witness ==
    \E r \in Req :
        LET q == req[r] IN
        /\ SignupChecked(q)
        /\ q.body.password = Rep("a", 8)
        /\ NoUppercase(q.body.password) /\ NoDigit(q.body.password)
        /\ NoSpecial(q.body.password)
        /\ q.resp.status = 400
        /\ q.resp.body.message = "password must contain at least one uppercase letter"

\* a password that breaks none of the five rules
MeetsPolicy(p) ==
    ~(TooShort(p) \/ NoUppercase(p) \/ NoLowercase(p) \/ NoDigit(p) \/ NoSpecial(p))

\* in a sequence of calls, every call of b comes after a call of a
Before(calls, a, b) ==
    \A j \in 1..Len(calls) :
        calls[j] = b => \E i \in 1..(j - 1) : calls[i] = a

\* the calls are in the order policy, hash, store write
PolicyHashStore(calls) ==
    /\ Before(calls, "ValidatePasswordStrength", "HashPassword")
    /\ Before(calls, "HashPassword", "CreateWithAuth")

\* C12: signup ordering.  Within one signup the policy check, the hash and
\* the store write happen in that order; the hasher is never called for a
\* password that fails the policy, and the store create is never called
\* unless the policy passed and the hash succeeded.
C12_PolicyHashStore ==
    /\ \A p \in SignupPasswords, d \in {"1990-01-01", "bad"},
          tooLongFails \in BOOLEAN, dbFault \in DbFaults :
          LET res == CreateUser(users, nextID, NextSalt, tooLongFails, dbFault,
                                "Al", "n@x.io", p, d, "user")
          IN  /\ PolicyHashStore(res.calls)
              /\ "HashPassword" \in Elements(res.calls) => MeetsPolicy(p)
              /\ "CreateWithAuth" \in Elements(res.calls) =>
                    MeetsPolicy(p) /\ res.hash.ok /\ res.hash.pw = BcryptKey(p)
              /\ res.row # NoUser =>
                    "CreateWithAuth" \in Elements(res.calls)
                    /\ res.row.PasswordHash = res.hash
    /\ \A r \in Req :
          LET q == req[r] IN
          q.stage = "done" /\ q.route = "signup" =>
              /\ PolicyHashStore(q.calls)
              /\ "HashPassword" \in Elements(q.calls) => MeetsPolicy(q.body.password)
              /\ "CreateWithAuth" \in Elements(q.calls) =>
                    /\ MeetsPolicy(q.body.password)
                    /\ \E i \in 1..Len(hashes) : hashes[i].password = q.body.password
    /\ \A i \in 1..Len(hashes) : MeetsPolicy(hashes[i].password)
    /\ \A u \in users \ SeedUsers :
          \E i \in 1..Len(hashes) :
              hashes[i].hash = u.PasswordHash /\ MeetsPolicy(hashes[i].password)

\* a signup has gone through policy check, hash and store write and was
\* answered 201
C12_Witness ==
    \E r \in Req :
        LET q == req[r] IN
        /\ q.stage = "done" /\ q.route = "signup" /\ q.resp.status = 201
        /\ q.calls = <<"ValidatePasswordStrength", "CreateUser",
                       "ValidatePasswordStrength", "HashPassword", "time.Parse",
                       "CreateWithAuth">>
        /\ \E u \in users \ SeedUsers, i \in 1..Len(hashes) :
              u.Email = q.body.email /\ hashes[i].hash = u.PasswordHash

\* a signup body with a missing or invalid field
InvalidField(b) ==
    \/ b.name = "" \/ Len(b.name) < 2
    \/ b.email \notin {"a@x.io", "u@x.io", "n@x.io"}
    \/ b.password = <<>>
    \/ b.dob \notin {"1990-01-01", "2000-02-29"}

\* a signup body the handler must turn away with 400
BadSignup(b) == ~b.ok \/ InvalidField(b) \/ ~MeetsPolicy(b.password)

\* the status owed to a signup with body b, given what the store and the
\* hasher do
C13_Mapping ==
    \A b \in SignupBodies, tooLongFails \in BOOLEAN, dbFault \in DbFaults :
        LET res == CreateUser(users, nextID, NextSalt, tooLongFails, dbFault,
                              b.name, b.email, b.password, b.dob, "user")
            out == SignupOutcome(b, res)
            unhashable == tooLongFails /\ Len(b.password) > 72
            taken == \E u \in users : u.Email = b.email
        IN  out.resp.status =
                IF BadSignup(b) THEN 400
                ELSE IF unhashable \/ dbFault = "down" THEN 500
                ELSE IF taken THEN 409
                ELSE 201

\* what a finished signup shows: 400 without a call of CreateUser for bad
\* input, one of 201, 409, 500 otherwise, 201 only with the row stored
C13_Answered ==
    \A r \in Req :
        LET q == req[r] IN
        q.stage = "done" /\ q.route = "signup" =>
            /\ BadSignup(q.body) =>
                  q.resp.status = 400 /\ "CreateUser" \notin Elements(q.calls)
            /\ ~BadSignup(q.body) =>
                  /\ q.resp.status \in {201, 409, 500}
                  /\ "CreateUser" \in Elements(q.calls)
            /\ q.resp.status = 201 =>
                  \E u \in users \ SeedUsers :
                      /\ u.Email = q.body.email /\ u.Name = q.body.name
                      /\ Len(q.resp.data) = 1
                      /\ q.resp.data[1].ID = u.ID /\ q.resp.data[1].Name = u.Name
                      /\ q.resp.data[1].Email = u.Email
                      /\ q.resp.data[1].Role = "user"

\* a signup step leaves the store alone unless it answers 201, and on 409
\* the email was there before
C13_Store ==
    \A r \in Req :
        req[r].stage = "Signup" /\ req'[r].stage = "done" =>
            /\ req'[r].resp.status # 201 => users' = users
            /\ req'[r].resp.status = 400 => nextID' = nextID /\ hashes' = hashes
            /\ req'[r].resp.status = 409 =>
                  \E u \in users : u.Email = req'[r].body.email
            /\ req'[r].resp.status = 201 =>
                  /\ ~\E u \in users : u.Email = req'[r].body.email
                  /\ Cardinality(users') = Cardinality(users) + 1

\* C13: signup status mapping.  POST /auth/signup answers 400 for an
\* unparsable body, a missing or invalid field or a weak password, and then
\* CreateUser is not called and the store is unchanged; 409 when the email
\* already exists, 500 for any other failure, 201 on success.
C13_StatusMapping == [](C13_Mapping /\ C13_Answered) /\ [][C13_Store]_vars

\* a signup with an email that is taken has been answered 409, the store
\* as it was
C13_Witness ==
    \E r \in Req :
        LET q == req[r] IN
        /\ q.stage = "done" /\ q.route = "signup" /\ ~BadSignup(q.body)
        /\ q.body.email = "a@x.io"
        /\ q.resp = SendError(409, "Email already exists", "ALREADY_EXISTS")
        /\ users = SeedUsers

\* C14, as claimed: CreateUser returns ErrEmailAlreadyExists whenever the
\* store's create call fails with a uniqueness violation on the email; for
\* every other store failure it returns an error that is not
\* ErrEmailAlreadyExists and that the handler reports as 500 with a generic
\* message.
C14_UniqueToSentinel ==
    \A r \in Req :
        LET q == req[r] IN
        ( /\ q.stage = "done" /\ q.route = "signup"
          /\ "CreateWithAuth" \in Elements(q.calls) )
        => /\ q.storeErr = UniqueViolation => q.err = ErrEmailAlreadyExists
           /\ q.storeErr \notin {Nil, UniqueViolation} =>
                 /\ q.err # ErrEmailAlreadyExists
                 /\ q.resp = SendError(500, "Failed to create user", "INTERNAL_ERROR")

\* the credentials of body b are those of a user row
RightCredentials(b, store) ==
    b.ok /\ \E u \in store :
        u.Email = b.email /\ u.PasswordHash.ok /\ u.PasswordHash.pw = b.password

\* with no secret set the issuer returns no token, and a login with the
\* right credentials fails with an error of its own, no user and no token
C15_NotConfigured ==
    /\ \A u \in users :
          LET gen == GenerateJWT("", jwtExpiry, clock, u.ID, u.Role)
          IN  gen.err # "" /\ gen.token = NoToken
    /\ \A b \in LoginBodies :
          RightCredentials(b, users) =>
              LET res == Login(users, "", jwtExpiry, clock, b.email, b.password, FALSE)
              IN  /\ res.err \notin {"", "ErrInvalidCredentials"}
                  /\ res.token = NoToken /\ res.user = NoUser
                  /\ LoginResponse(b, res).status = 500
                  /\ LoginCookie(b, res, jwtExpiry) = NoCookie

\* a step of the Login handler taken with no secret set issues nothing and
\* sets no cookie, and answers 500 unless the lookup of the user failed
C15_Answered ==
    \A r \in Req :
        ( /\ req[r].stage = "LoginHandler" /\ req'[r].stage = "done"
          /\ jwtSecret = ""
          /\ RightCredentials(req'[r].body, users) )
        => /\ req'[r].resp.status \in {500, 401}
           /\ req'[r].resp.status = 500 =>
                 req'[r].resp = SendError(500, "Failed to authenticate user", "INTERNAL_ERROR")
           /\ req'[r].cookie = NoCookie
           /\ issued' = issued

\* C15: if no signing secret has been set, GenerateJWT fails and returns no
\* token; a Login with correct credentials then returns an error that is
\* not ErrInvalidCredentials, with an empty token and an empty user, and the
\* Login handler answers 500 and sets no cookie.
C15_NoSecret == []C15_NotConfigured /\ [][C15_Answered]_vars

\* a login with the right credentials has been answered 500 while no
\* secret is set
C15_Witness ==
    \E r \in Req :
        LET q == req[r] IN
        /\ jwtSecret = "" /\ issued = {}
        /\ q.stage = "done" /\ q.route = "login"
        /\ RightCredentials(q.body, users)
        /\ q.resp.status = 500 /\ q.cookie = NoCookie

\* the header is the scheme keyword and a blank followed by a token
TokenPresented(h) ==
    /\ Len(h) >= 3
    /\ h[1].w \in {"Bearer", "bearer", "BEARER"}
    /\ h[2] = SP
    /\ \E i \in 3..Len(h) : h[i] # SP

\* C16: the Auth Gate answers every token-verification failure alike: a
\* malformed token, an expired token and a token with a bad signature all
\* get status 401 with one error code and one message.
C16_UniformFailure ==
    \A r \in Req :
        LET q == req[r] IN
        StoppedAt(q, "Auth") /\ TokenPresented(q.header) =>
            q.resp = SendError(401, "Invalid or expired token", "INVALID_TOKEN")

\* a token signed with the gate's secret has been presented after its
\* expires-at and got the answer a malformed token gets
C16_Witness ==
    \E r \in Req :
        LET q == req[r] IN
        /\ StoppedAt(q, "Auth")
        /\ \E t \in ForgedTokens :
              /\ q.header = Bearer(t)
              /\ t.alg = "HS256" /\ t.key = gateSecret
              /\ t.hasExp /\ t.exp <= q.authAt
        /\ q.resp = Auth(gateSecret, <<Word("Bearer"), SP, Word("garbage")>>, q.authAt).resp
        /\ q.resp.body.code = "INVALID_TOKEN"

\* the header is the scheme keyword followed by blanks and nothing else
EmptyToken(h) ==
    /\ Len(h) >= 2
    /\ h[1].w \in {"Bearer", "bearer", "BEARER"}
    /\ \A i \in 2..Len(h) : h[i] = SP

\* C17, as claimed: a header that is the scheme keyword followed by an empty
\* token is rejected like a missing header, with the same status, error
\* code and message.
C17_SameAsMissing ==
    \A r \in Req :
        LET q == req[r] IN
        StoppedAt(q, "Auth") /\ EmptyToken(q.header) =>
            q.resp = Auth(gateSecret, <<>>, q.authAt).resp

\* C17, amended: such a header is rejected with the status and error code
\* of a missing header, 401 and UNAUTHORIZED, and no principal, but with
\* the message "Token is required" where a missing header gets "Missing
\* authorization header".
C17_EmptyToken ==
    \A r \in Req :
        LET q == req[r]
            missing == Auth(gateSecret, <<>>, q.authAt).resp
        IN  InTrace(q, "Auth") /\ EmptyToken(q.header) =>
                /\ StoppedAt(q, "Auth") /\ q.locals = NoLocal
                /\ q.resp.status = 401 /\ q.resp.status = missing.status
                /\ q.resp.body.code = "UNAUTHORIZED"
                /\ q.resp.body.code = missing.body.code
                /\ q.resp.body.message = "Token is required"
                /\ missing.body.message = "Missing authorization header"

\* the header "Bearer " has been turned away with "Token is required"
C17_Witness ==
    \E r \in Req :
        LET q == req[r] IN
        /\ q.header = <<Word("Bearer"), SP>>
        /\ StoppedAt(q, "Auth")
        /\ q.resp = SendError(401, "Token is required", "UNAUTHORIZED")

\* ---------------------------------------------------------------- C18
\* the texts a response message is taken from: literals of the handlers and
\* the texts of the password policy errors
ResponseTexts ==
    { "", "user", "users", "Admin statistics", "Login successful",
      "Email already exists", "Failed to authenticate user",
      "Failed to create user", "Failed to list users",
      "Failed to retrieve statistics", "Failed to retrieve users",
      "Forbidden: insufficient permissions", "Invalid email or password",
      "Invalid or expired token", "Invalid request body", "Invalid user ID",
      "Missing authorization header", "Token is required", "User not found",
      "Invalid authorization header format. Expected: Bearer <token>",
      "validation failed" }
    \cup { ErrorText(e.words) :
             e \in { ErrPasswordTooShort, ErrPasswordNoUppercase,
                     ErrPasswordNoLowercase, ErrPasswordNoDigit,
                     ErrPasswordNoSpecial } }

\* C18: no response of signup, login, /users, /users/me or /admin carries a
\* password hash in its body, and the message of a response is a fixed text
\* of the service, never the password the request brought
C18_NoHashInBody ==
    \A r \in DOMAIN req :
        /\ \A i \in 1..Len(req[r].resp.data) :
              req[r].resp.data[i].PasswordHash = EmptyHash
        /\ req[r].resp.body.message \in ResponseTexts

\* the admin listing answers with a user that signed up, whose stored row
\* holds a hash
C18_Witness ==
    \E r \in DOMAIN req :
        /\ req[r].stage = "done"
        /\ "GetAllUsers" \in Elements(req[r].trace)
        /\ req[r].resp.status = StatusOK
        /\ \E i \in 1..Len(req[r].resp.data), u \in users, k \in 1..Len(hashes) :
              /\ u.ID = req[r].resp.data[i].ID
              /\ u.PasswordHash = hashes[k].hash
              /\ u.PasswordHash # EmptyHash

\* ---------------------------------------------------------------- C19
\* C19: for every password p the service hashed and every password q,
\* ComparePassword(HashPassword(p), q) succeeds exactly when q = p
C19_RoundTrip ==
    \A i \in 1..Len(hashes), q \in SignupPasswords :
        (ComparePassword(hashes[i].hash, q) = "") <=> (q = hashes[i].password)

OwnPrincipal(q, p) ==
    \E i \in 1..Len(q.header) :
        /\ q.header[i].w = ""
        /\ IsBearerOf(q.header, q.header[i].t)
        /\ p = AuthUser(q.header[i].t.uid, q.header[i].t.role)

\* C21: the principal is request-scoped.  With requests served side by
\* side in any interleaving, GetAuthUser on a request the Auth Gate let
\* through gives the principal of that request's own token, on any other
\* request it gives nil, and GET /users/me answers with the user of the
\* request's own token.
C21_RequestScoped ==
    \A r \in Slots :
        LET q == req[r] IN
        /\ PassedStage(q, "Auth") => OwnPrincipal(q, GetAuthUser(q.locals))
        /\ ~PassedStage(q, "Auth") => GetAuthUser(q.locals) = NoLocal
        /\ (InTrace(q, "GetCurrentUser") /\ q.resp.status = StatusOK)
              => /\ Len(q.resp.data) = 1
                 /\ \E p \in {AuthUser(pr[1], pr[2]) : pr \in Principals} :
                       OwnPrincipal(q, p) /\ q.resp.data[1].ID = p.ID

\* two requests in flight at once hold different principals, one of them
\* already answered with its own user while the other is past the gate
C21_Witness ==
    \E r \in Slots, s \in Slots :
        /\ r # s
        /\ PassedStage(req[r], "Auth") /\ PassedStage(req[s], "Auth")
        /\ req[r].locals # req[s].locals
        /\ InTrace(req[r], "GetCurrentUser") /\ req[r].resp.status = StatusOK
        /\ req[s].stage \in {"GetCurrentUser", "RequireRole"}

\* ---------------------------------------------------------------- C22
Emails(store) == { u.Email : u \in store }

\* the signup of r reached the store and the store answered it
StoreAnswered(q) ==
    /\ InTrace(q, "Signup") /\ "CreateWithAuth" \in Elements(q.calls)
    /\ q.storeErr \in {Nil, UniqueViolation}

\* the store never holds two rows with one email
C22_OneRowPerEmail ==
    \A u \in users, v \in users : u.Email = v.Email => u = v

\* a signup the store answers gets 201 when its email was not in the store,
\* and is then in it for good, and 409 when it was; no signup removes a row
C22_Answered ==
    /\ users \subseteq users'
    /\ \A r \in Slots :
          (req[r].stage = "Signup" /\ StoreAnswered(req'[r]))
              => LET q == req'[r] IN
                 IF q.body.email \in Emails(users)
                 THEN q.resp.status = StatusConflict /\ users' = users
                 ELSE /\ q.resp.status = StatusCreated
                      /\ q.body.email \in Emails(users')

\* C22: email uniqueness under repetition and concurrency.  Over any
\* sequence or interleaving of signups with one email, at most one is
\* answered 201, every other one the store answers gets 409, and the store
\* never holds two rows with the same email.
C22_EmailUnique == []C22_OneRowPerEmail /\ [][C22_Answered]_vars

\* two signups with one email in flight together, one answered 201 and the
\* other 409
C22_Witness ==
    \E r \in Slots, s \in Slots :
        /\ r # s
        /\ StoreAnswered(req[r]) /\ StoreAnswered(req[s])
        /\ req[r].body.email = req[s].body.email
        /\ req[r].resp.status = StatusCreated
        /\ req[s].resp.status = StatusConflict

\* ---------------------------------------------------------------- C23
BearerWords == {"Bearer", "bearer", "BEARER", "bEaReR"}

\* the header of q was handed to the token parser: the gate let it through
\* or answered what it answers for a token that does not verify
Verified(q) ==
    PassedStage(q, "Auth") \/ (StoppedAt(q, "Auth") /\ q.resp.body.code = "INVALID_TOKEN")

\* the first white-space-delimited field is the keyword and exactly one
\* token follows it
KeywordAndOneToken(h) ==
    LET f == SelectSeq(h, LAMBDA it : it.w \notin {" ", "\t"})
    IN  Len(f) = 2 /\ f[1].w \in BearerWords

\* the header begins with the keyword and a space, and something that is
\* not white space follows
KeywordSpaceToken(h) ==
    /\ Len(h) >= 3 /\ h[1].w \in BearerWords /\ h[2].w = " "
    /\ \E i \in 3..Len(h) : h[i].w \notin {" ", "\t"}

\* the claim as stated: a non-empty header reaches token verification
\* exactly when its first field is the keyword and one token follows
C23_FieldsRule ==
    \A r \in Req :
        LET q == req[r] IN
        (InTrace(q, "Auth") /\ q.header # <<>>)
            => (Verified(q) <=> KeywordAndOneToken(q.header))

\* C23: header parsing in the Auth Gate.  A non-empty header reaches token
\* verification exactly when it begins with the keyword bearer, in any
\* letter case, and a space, and a token follows; the gate lets through
\* only a header with exactly one token after the keyword, whatever the
\* number of spaces between them, and every other header ends in 401 with
\* no principal attached.
C23_HeaderParsing ==
    \A r \in Req :
        LET q == req[r] IN
        (InTrace(q, "Auth") /\ q.header # <<>>)
            => /\ Verified(q) <=> KeywordSpaceToken(q.header)
               /\ PassedStage(q, "Auth") => KeywordAndOneToken(q.header)
               /\ StoppedAt(q, "Auth")
                     => /\ q.resp.status = StatusUnauthorized
                        /\ GetAuthUser(q.locals) = NoLocal

\* the gate has let through a header with the keyword in mixed case and
\* several blanks before the token
C23_Witness ==
    \E r \in Req :
        LET q == req[r] IN
        /\ PassedStage(q, "Auth")
        /\ q.header[1] = Word("bEaReR")
        /\ Len(q.header) > 3
        /\ GetAuthUser(q.locals) # NoLocal

\* ---------------------------------------------------------------- C24
\* C24: role on signup.  CreateUser called with an empty role stores the
\* role "user"; every user a signup creates has the role "user", whatever
\* role the request body names, so the only admins are those that were in
\* the store before any signup.
C24_SignupRole ==
    /\ \A u \in users : u.Role = "admin" => u \in SeedUsers
    /\ \A u \in users \ SeedUsers : u.Role = "user"
    /\ \A r \in Req :
          (InTrace(req[r], "Signup") /\ req[r].resp.status = StatusCreated)
              => req[r].resp.data[1].Role = "user"
    /\ \A b \in SignupBodies, role0 \in {"", "user", "admin"} :
          LET res == CreateUser(users, nextID, NextSalt, FALSE, "none",
                                b.name, b.email, b.password, b.dob, role0)
          IN  res.err = Nil
                  => res.row.Role = (IF role0 = "" THEN "user" ELSE role0)

\* a signup whose body names the role admin was answered 201
C24_Witness ==
    \E r \in Req :
        /\ InTrace(req[r], "Signup") /\ req[r].resp.status = StatusCreated
        /\ req[r].body.role = "admin"
        /\ \E u \in users \ SeedUsers : u.Email = req[r].body.email

\* ---------------------------------------------------------------- C25
\* the call of CreateUser in q was rejected for its input
WeakPasswordCall(q) ==
    InTrace(q, "CreateUser") /\ ~MeetsPolicy(q.body.password)
BadDobCall(q) ==
    /\ InTrace(q, "CreateUser") /\ MeetsPolicy(q.body.password)
    /\ q.body.dob \notin {"1990-01-01"}
    /\ q.err # Nil /\ q.err.words[1] = "invalid"

\* the claim as stated: a call rejected for its password or for its date of
\* birth invoked neither the hasher nor the store create
C25_NoWorkOnBadInput ==
    \A r \in Req :
        (WeakPasswordCall(req[r]) \/ BadDobCall(req[r]))
            => /\ "HashPassword" \notin Elements(req[r].calls)
               /\ "CreateWithAuth" \notin Elements(req[r].calls)

C25_Calls ==
    \A r \in Req :
        LET q == req[r] IN
        /\ WeakPasswordCall(q)
              => /\ q.err # Nil
                 /\ "HashPassword" \notin Elements(q.calls)
                 /\ "CreateWithAuth" \notin Elements(q.calls)
        /\ BadDobCall(q)
              => /\ "HashPassword" \in Elements(q.calls)
                 /\ "CreateWithAuth" \notin Elements(q.calls)
        /\ (InTrace(q, "CreateUser") /\ MeetsPolicy(q.body.password)
              /\ q.body.dob # "1990-01-01")
              => q.err # Nil /\ "CreateWithAuth" \notin Elements(q.calls)

C25_Work ==
    \A r \in Req :
        (req[r].stage = "idle" /\ InTrace(req'[r], "CreateUser"))
            => /\ WeakPasswordCall(req'[r])
                  => hashes' = hashes /\ users' = users /\ nextID' = nextID
               /\ BadDobCall(req'[r])
                  => /\ users' = users /\ nextID' = nextID
                     /\ Len(hashes') = Len(hashes) + 1
                     /\ hashes'[Len(hashes')].password = req'[r].body.password

\* C25: fail fast in CreateUser.  A call rejected for a password that fails
\* the policy returns before the hasher and the store create are invoked; a
\* call rejected for a date of birth that is not a YYYY-MM-DD date returns
\* after the password was hashed and before the store create is invoked.
C25_FailFast == []C25_Calls /\ [][C25_Work]_vars

\* CreateUser has rejected a call for its date of birth
C25_Witness ==
    \E r \in Req :
        /\ BadDobCall(req[r])
        /\ req[r].body.dob = "01-01-1990"
        /\ Len(hashes) > 0 /\ hashes[Len(hashes)].password = req[r].body.password

\* ---------------------------------------------------------------- C26
\* what Login returns in the present state, for every email and password:
\* on success the one user row with that email and a token with that row's
\* id and role, on failure no user and no token
C26_LoginResult ==
    \A b \in LoginBodies, dbErr \in BOOLEAN :
        LET res == Login(users, jwtSecret, jwtExpiry, clock, b.email, b.password, dbErr)
        IN  IF res.err = ""
            THEN /\ res.user \in users /\ res.user.Email = b.email
                 /\ res.token # NoToken
                 /\ res.token.uid = res.user.ID
                 /\ res.token.role = res.user.Role
            ELSE res.user = NoUser /\ res.token = NoToken

\* a step of the login handler: a 200 carries, in the cookie, a token with
\* the id and role of the user row found for the email at that time, and
\* that user in the body; any other answer carries no token and none is
\* issued
C26_Answered ==
    \A r \in Req :
        (req[r].stage = "LoginHandler" /\ req'[r].stage = "done")
            => LET q == req'[r] IN
               IF q.resp.status = StatusOK
               THEN \E u \in users :
                       /\ u.Email = q.body.email
                       /\ q.cookie.set
                       /\ q.cookie.value.uid = u.ID /\ q.cookie.value.role = u.Role
                       /\ q.resp.data = <<LoginUser(u)>>
                       /\ \A x \in issued' \ issued :
                             x.tok = q.cookie.value /\ x.uid = u.ID /\ x.role = u.Role
               ELSE q.cookie = NoCookie /\ issued' = issued

\* C26: token role binding.  The role and user id in a token issued by
\* Login are the role and id of the user row found for the login email at
\* login time, a successful Login returns that row together with the token,
\* and Login issues no token on any failure path.
C26_RoleBinding == []C26_LoginResult /\ [][C26_Answered]_vars

\* the admin has logged in and holds a token naming the admin
C26_Witness ==
    \E r \in Req, u \in users :
        /\ InTrace(req[r], "LoginHandler") /\ req[r].resp.status = StatusOK
        /\ u.Email = req[r].body.email /\ u.Role = "admin"
        /\ req[r].cookie.value.role = "admin" /\ req[r].cookie.value.uid = u.ID

\* ---------------------------------------------------------------- C27
\* whatever the password and the signing secret, a login whose lookup by
\* email fails, for want of a row or for a failure of the store, gets
\* ErrInvalidCredentials with no user and no token
C27_LoginResult ==
    \A b \in LoginBodies, dbErr \in BOOLEAN, secret \in Secrets \cup {""} :
        GetByEmail(users, b.email, dbErr).err # ""
            => Login(users, secret, jwtExpiry, clock, b.email, b.password, dbErr)
                   = LoginResult(NoUser, NoToken, "ErrInvalidCredentials")

\* a step of the login handler in which the lookup failed ends in the 401
\* of invalid credentials, with no cookie and no token issued
C27_Answered ==
    \A r \in Req :
        ( /\ req[r].stage = "LoginHandler" /\ req'[r].stage = "done"
          /\ req'[r].storeErr # Nil )
            => /\ req'[r].resp =
                     SendError(StatusUnauthorized, "Invalid email or password",
                               "INVALID_CREDENTIALS")
               /\ req'[r].cookie = NoCookie
               /\ issued' = issued

\* C27: every error of the lookup GetByEmail in Login, no row or a failure
\* of the store, becomes ErrInvalidCredentials, so the login handler
\* answers 401, never 500, and neither the password comparison nor the
\* token issuer has a say in the answer.
C27_LookupFailure == []C27_LoginResult /\ [][C27_Answered]_vars

\* the store failed during a login with the right password while no
\* signing secret was set, and the answer was 401
C27_Witness ==
    \E r \in Req, u \in users :
        /\ InTrace(req[r], "LoginHandler")
        /\ req[r].storeErr = Error("", <<"db error">>)
        /\ u.Email = req[r].body.email
        /\ ComparePassword(u.PasswordHash, req[r].body.password) = ""
        /\ jwtSecret = ""
        /\ req[r].resp.status = StatusUnauthorized

\* ---------------------------------------------------------------- C28
\* C28: calculateAge at birthday boundaries.  A date of birth N years
\* before today, on the same month and day, gives the age N; N years ago
\* plus one day gives N - 1; N years ago minus one day gives N.
C28_BirthdayBoundaries ==
    \A r \in Req :
        LET q == req[r] IN
        InTrace(q, "calculateAge")
            => /\ (q.days = 0 /\ q.dob.m = q.now.m /\ q.dob.d = q.now.d)
                     => q.age = q.years
               /\ (q.days = 1 /\ q.years >= 1) => q.age = q.years - 1
               /\ q.days = -1 => q.age = q.years

\* ---------------------------------------------------------------- C29
\* the rows of the store from position offset + 1 on, limit at most, where
\* offset = (page - 1) * limit; none when page - 1 is the number of rows or
\* more, limit being 1 at least
PageOf(store, page, limit) ==
    LET rows == ByID(store) IN
    IF page - 1 >= Len(rows) THEN <<>>
    ELSE LET offset == (page - 1) * limit
         IN  [ i \in 1..(IF Len(rows) - offset < limit THEN Len(rows) - offset ELSE limit)
                 |-> rows[offset + i] ]

\* C29: pagination in ListUsersWithAgePaginated.  A listing asked with a
\* page or a limit, with the store at work, is answered with page < 1
\* replaced by 1 and a limit outside 1..100 by 10, with the users the store
\* holds at offset (page - 1) * limit, limit of them at most, and with
\* TotalPages = ceil(total / limit), HasNext = (page < TotalPages) and
\* HasPrevious = (page > 1); a page beyond TotalPages has HasNext FALSE.
C29_Pagination ==
    \A r \in Req :
        LET q == req[r]
            page0 == Atoi(q.body.page).n
            limit0 == Atoi(q.body.limit).n
            page == IF page0 < 1 THEN 1 ELSE page0
            limit == IF limit0 < 1 \/ limit0 > 100 THEN 10 ELSE limit0
            total == Cardinality(users)
            m == q.resp.meta
        IN  ( /\ InTrace(q, "List") /\ q.resp.status = StatusOK
              /\ (q.body.page # <<>> \/ q.body.limit # <<>>) )
            => /\ m.Page = page /\ m.Limit = limit
               /\ m.TotalPages * limit >= total /\ (m.TotalPages - 1) * limit < total
               /\ m.HasNext = (page < m.TotalPages)
               /\ m.HasPrevious = (page > 1)
               /\ page > m.TotalPages => ~m.HasNext
               /\ Len(q.resp.data) <= limit
               /\ MapSeq(LAMBDA v : v.ID, q.resp.data)
                     = MapSeq(LAMBDA u : u.ID, PageOf(users, page, limit))

\* ---------------------------------------------------------------- C30
\* a step of DELETE /users/:id with a numeric id: with no user of that id in
\* the store the answer is 404 "User not found", and a 204 is given only
\* when a row was removed
C30_Answered ==
    \A r \in Req :
        ( /\ req[r].stage = "Delete" /\ req'[r].stage = "done"
          /\ Atoi(req'[r].body.id).err = "" )
            => LET id == Atoi(req'[r].body.id).n IN
               /\ (~\E u \in users : u.ID = id)
                     => req'[r].resp = SendNotFound("User not found")
               /\ req'[r].resp.status = StatusNoContent
                     => /\ \E u \in users : u.ID = id
                        /\ ~\E u \in users' : u.ID = id

\* C30: DELETE /users/:id answers 404 "User not found" when no user with
\* that id exists and 204 only when a user record was removed; once a
\* delete of an id is answered 204, no user with that id is in the store.
C30_DeleteMissing == [][C30_Answered]_vars

====
